---------------------------- MODULE Spec2Model ----------------------------
(* A model of the Docuware helper (src/docuware.ts): the HTTP retry        *)
(* wrapper, the command dispatcher, the paginated cabinet listing, the     *)
(* query-expression parser, the cookie formatter, the authentication calls *)
(* of the module and the retry overrides of the command line.              *)
(*                                                                         *)
(* Each part has its own specification over its own variables; the         *)
(* variables of the other parts stay at their initial values.              *)
EXTENDS Integers, Sequences, FiniteSets, TLC

(***************************************************************************)
(* Values shared by all parts                                              *)
(***************************************************************************)

\* The three kinds of value a call of the retry wrapper hands back.
Undefined == [kind |-> "undefined", data |-> "-"]
Null == [kind |-> "null", data |-> "-"]
Data(d) == [kind |-> "data", data |-> d]
\* The wrapper has not returned yet.
Pending == [kind |-> "pending", data |-> "-"]

\* Largest configured retryMaxCount explored (the default in the code is 100).
MaxRetryCount == 4

\* HTTP statuses the server may answer with; 201 and 204 are 2xx but not 200.
Statuses == {200, 201, 204, 503}
\* Response bodies (res.data).
Bodies == {"b1", "b2"}
Methods == {"get", "post"}

VARIABLES
    \* --- GLOBALS
    endpoint,       \* GLOBALS.endpoint
    cookie,         \* GLOBALS.cookie
    retryMaxCount,  \* GLOBALS.retryMaxCount
    retryDelayBaseInSeconds,        \* GLOBALS.retryDelayBaseInSeconds
    retryDelayRandomMinInSeconds,   \* GLOBALS.retryDelayRandomMinInSeconds
    retryDelayRandomMaxInSeconds,   \* GLOBALS.retryDelayRandomMaxInSeconds
    \* --- one call of getRequest / postRequest
    reqMethod,      \* which wrapper runs: "get" (getRequest) or "post" (postRequest)
    reqPc,          \* "idle", "axios" (awaiting axios), "delay" (awaiting delay), "done"
    reqI,           \* the loop variable i
    reqSent,        \* number of HTTP requests issued by this call
    reqAttempts,    \* the endpoint and the Cookie header of each of them, in order
    reqLog,         \* what came back, in order: [status, data], status 0 = exception
    reqDelays,      \* number of backoff delays started by this call
    reqDelaySeconds,\* the seconds of the delay started last
    reqResult,      \* the value returned to the caller
    \* --- the requests issued through the wrapper by the operations below
    http,           \* the logical requests issued so far, in order
    \* --- getAllDocumentsFromCabinet
    pgPc,           \* "idle", "page" (awaiting a page), "done", "crashed"
    pgCabinet,      \* fileCabinetId
    pgStart,        \* start
    pgHeaders,      \* headers (null until the first page has arrived)
    pgDocuments,    \* documents
    pgReceived,     \* the pages the server answered with, in order
    srvPageSizes,   \* the sizes of the row sets the server may answer with
    \* --- getDocumentsWithQuery: the query-expression parser
    queryConds,         \* the conditions the caller wrote the query string from
    downloadQueryStr,   \* the query string handed to getDocumentsWithQuery
    jsonBody,           \* the body built from it (or the TypeError raised)
    queryRes,           \* res: what the post of the body returned
    queryLink,          \* queryLink: the link then fetched
    \* --- formatCookie
    cookieStr,          \* the Set-Cookie entries handed to formatCookie
    formattedCookieStr, \* the string returned
    \* --- DocuwareCMD.execute
    args,           \* the parsed command line (minimist)
    pc,             \* where execute stands: "start", the request awaited, "returned", "crashed"
    out,            \* the lines written with console.log, in order
    loginCookie,    \* loginCookie of generateToken
    cabinets,       \* cabinets
    documents,      \* documents
    dlIndex,        \* the loop variable i of the download loop
    files,          \* the files created by the download loop, in order
    settled,        \* how many of the requests of http have completed (a
                    \* response arrived or an exception was raised)
    \* --- generateToken / initAuthFromToken / initAuthFromCreds called as a module
    authPc,         \* "idle", or the authentication request awaited
    authCall,       \* the call under way: its function, its arguments, its requests
    authLog         \* the calls that are over, in order

sessionVars == <<endpoint, cookie>>
retryVars == <<retryMaxCount, retryDelayBaseInSeconds, retryDelayRandomMinInSeconds,
               retryDelayRandomMaxInSeconds>>
reqVars == <<reqMethod, reqPc, reqI, reqSent, reqAttempts, reqLog, reqDelays, reqDelaySeconds, reqResult>>
pgVars == <<pgPc, pgCabinet, pgStart, pgHeaders, pgDocuments, pgReceived, srvPageSizes>>
queryVars == <<queryConds, downloadQueryStr, jsonBody, queryRes, queryLink>>
cookieVars == <<cookieStr, formattedCookieStr>>
authVars == <<authPc, authCall, authLog>>
cmdVars == <<args, pc, out, loginCookie, cabinets, documents, dlIndex, files, settled>>
vars == <<sessionVars, retryVars, reqVars, http, pgVars, queryVars, cookieVars, authVars, cmdVars>>

\* What the actions of one part leave alone.
notRequest == <<sessionVars, http, pgVars, queryVars, cookieVars, authVars, cmdVars>>
notPaging == <<sessionVars, retryVars, reqVars, queryVars, cookieVars, authVars, cmdVars>>
notQuery == <<sessionVars, retryVars, reqVars, http, pgVars, cookieVars, authVars, cmdVars>>
notCookie == <<sessionVars, retryVars, reqVars, http, pgVars, queryVars, authVars, cmdVars>>
notAuth == <<retryVars, reqVars, http, pgVars, queryVars, cookieVars, cmdVars>>

\* undefined: a command-line flag that was not given, a property that is
\* not there.
Absent == "<absent>"

\* The values of the server's JSON that are not strings: null, and objects.
\* An object is named by the text it is written with; MembersOf gives its
\* members. (The objects explored hold string members, none called
\* __proto__; numbers and arrays are outside the values of this module.)
NullItem == "<null>"
ObjectItems == {"{DWDOCID: '9'}", "{SERIAL_NO: 'Z'}", "{}"}
MembersOf(item) ==
    CASE item = "{DWDOCID: '9'}" -> [DWDOCID |-> "9"]
      [] item = "{SERIAL_NO: 'Z'}" -> [SERIAL_NO |-> "Z"]
      [] OTHER -> [name \in {} |-> ""]

\* A plain object: its own properties (a function from the keys) and its
\* prototype: Object.prototype, null, or an object of the server's JSON.
ObjectPrototype == "<Object.prototype>"
EmptyObject == [own |-> [name \in {} |-> ""], proto |-> ObjectPrototype]

\* obj[name] = value. Through Object.prototype (that is, unless the prototype
\* is null) the name __proto__ is an accessor: its setter makes an object or
\* null the prototype and ignores every other value. Any other assignment
\* stores value under name.
Assign(obj, name, value) ==
    IF name = "__proto__" /\ obj.proto # NullItem
    THEN IF value \in ObjectItems \cup {NullItem}
         THEN [obj EXCEPT !.proto = value]
         ELSE obj
    ELSE [obj EXCEPT !.own = [n \in DOMAIN obj.own \cup {name} |->
                                IF n = name THEN value ELSE obj.own[n]]]

\* The names every object answers to through Object.prototype.
InheritedNames ==
    {"constructor", "hasOwnProperty", "isPrototypeOf", "propertyIsEnumerable",
     "toLocaleString", "toString", "valueOf", "__defineGetter__", "__defineSetter__",
     "__lookupGetter__", "__lookupSetter__"}

\* obj[name] read on the object with the own properties own and the
\* prototype proto: the own property, else what the prototype chain gives
\* (a member of the object that is the prototype, then a member of
\* Object.prototype; __proto__ reads the prototype itself), else undefined.
ReadProperty(own, proto, name) ==
    IF name \in DOMAIN own THEN own[name]
    ELSE IF proto = NullItem THEN Absent
    ELSE IF name = "__proto__" THEN proto
    ELSE IF proto \in ObjectItems /\ name \in DOMAIN MembersOf(proto) THEN MembersOf(proto)[name]
    ELSE IF name \in InheritedNames THEN "<Object.prototype: " \o name \o ">"
    ELSE Absent

\* A result that has not been computed yet.
NotRun == [kind |-> "not run"]

(***************************************************************************)
(* The state of each part while another part is the one explored           *)
(***************************************************************************)

\* headers is null before the first page, then the array of field names (an
\* empty array is not null: !headers is false for it).
NoHeaders == [isNull |-> TRUE, names |-> <<>>]
HeaderRow(names) == [isNull |-> FALSE, names |-> names]

\* const GLOBALS = { endpoint: '', cookie: '', retryMaxCount: 100, ... }
DefaultRetryMaxCount == 100
DefaultRetryDelayBaseInSeconds == 10
DefaultRetryDelayRandomMinInSeconds == 10
DefaultRetryDelayRandomMaxInSeconds == 20

SessionInit ==
    /\ endpoint = ""
    /\ cookie = ""

RetryDelayDefaults ==
    /\ retryDelayBaseInSeconds = DefaultRetryDelayBaseInSeconds
    /\ retryDelayRandomMinInSeconds = DefaultRetryDelayRandomMinInSeconds
    /\ retryDelayRandomMaxInSeconds = DefaultRetryDelayRandomMaxInSeconds

RetryDefaults ==
    /\ retryMaxCount = DefaultRetryMaxCount
    /\ RetryDelayDefaults

CmdIdle ==
    /\ args = <<>>
    /\ pc = "idle"
    /\ out = <<>>
    /\ loginCookie = ""
    /\ cabinets = <<>>
    /\ documents = <<>>
    /\ dlIndex = 0
    /\ files = <<>>
    /\ settled = 0

RequestIdle ==
    /\ reqMethod = "get"
    /\ reqPc = "idle"
    /\ reqI = 0
    /\ reqSent = 0
    /\ reqAttempts = <<>>
    /\ reqLog = <<>>
    /\ reqDelays = 0
    /\ reqDelaySeconds = 0
    /\ reqResult = Pending

PagingLocalsInit ==
    /\ http = <<>>
    /\ pgPc = "idle"
    /\ pgCabinet = "-"
    /\ pgStart = 0
    /\ pgHeaders = NoHeaders
    /\ pgDocuments = <<>>
    /\ pgReceived = <<>>

PagingIdle ==
    /\ PagingLocalsInit
    /\ srvPageSizes = {0}

QueryIdle ==
    /\ queryConds = <<>>
    /\ downloadQueryStr = <<>>
    /\ jsonBody = NotRun
    /\ queryRes = <<>>
    /\ queryLink = <<>>

CookieIdle ==
    /\ cookieStr = <<>>
    /\ formattedCookieStr = NotRun

\* No authentication call is under way.
NoCall == [fn |-> "-", endpoint |-> "", sent |-> <<>>, loginCookie |-> "",
           cookieBefore |-> "", startedAfter |-> 0]

AuthIdle ==
    /\ authPc = "idle"
    /\ authCall = NoCall
    /\ authLog = <<>>


(***************************************************************************)
(* PART 1  The HTTP retry wrapper: getRequest / postRequest                *)
(***************************************************************************)

\* status == 200 is the only success test (res.status == 200).
IsSuccessM(status) == status >= 200 /\ status < 300
IsSuccess(status) == status = 200

\* What the loop falls out to when i reaches retryMaxCount:
\* getRequest has no return statement after the loop, postRequest returns null.
ExhaustedResult(method) == IF method = "get" THEN Undefined ELSE Null

\* What the catch block returns.
CatchResultM == Undefined
CatchResult == Null

\* The loop test i < GLOBALS.retryMaxCount.
LoopTestShortM(i, n) == i < n - 1
LoopTestOverM(i, n) == i <= n
LoopTest(i, n) == i < n

\* The loop of the wrapper is entered at least once: a retryMaxCount of 0
\* makes every call return at once, no request sent.
HasAttempt == LoopTest(0, retryMaxCount)

\* A line written with console.log; the JSON array of get mode carries its
\* documents as JSON.stringify writes them: the own properties of each
\* (nothing of a prototype), every property that is undefined left out, in
\* the row as well.
Line(text) == [text |-> text, docs |-> <<>>]
Stringified(doc) ==
    LET row == [name \in {n \in DOMAIN doc.row : doc.row[n] # Absent} |-> doc.row[name]]
    IN  IF doc.id = Absent
        THEN [cabinetId |-> doc.cabinetId, row |-> row]
        ELSE [id |-> doc.id, cabinetId |-> doc.cabinetId, row |-> row]
JsonLine(docs) == [text |-> "JSON", docs |-> [j \in 1..Len(docs) |-> Stringified(docs[j])]]

\* console.log(ex) of the catch block: the exception axios rejected with.
ExceptionLine == Line("Error: ECONNRESET")

\* What a call of the wrapper that returns no result has written: nothing
\* when the loop ran out of attempts, the exception when one was caught (an
\* exception needs an attempt to have been made).
NoResultLines == {<<>>} \cup (IF HasAttempt THEN {<<ExceptionLine>>} ELSE {})

\* What getRequest wrote before it returned no result: the exception, when
\* it caught one (null), nothing when the attempts ran out (undefined).
WrapperLog == IF reqResult = CatchResult THEN <<ExceptionLine>> ELSE <<>>

\* What an attempt is sent with: url: `${GLOBALS.endpoint}/${url}` and
\* 'Cookie': GLOBALS.cookie are evaluated inside the loop, for each axios call.
AttemptAtCallM(sent) ==
    IF sent = <<>> THEN [endpoint |-> endpoint, cookie |-> cookie] ELSE sent[1]
Attempt(sent) == [endpoint |-> endpoint, cookie |-> cookie]

\* The head of the for loop, entered with loop variable i: either the next
\* axios call is issued or the loop is left and the function returns.
LoopHead(i) ==
    IF LoopTest(i, retryMaxCount)
    THEN /\ reqPc' = "axios"
         /\ reqSent' = reqSent + 1
         /\ reqAttempts' = Append(reqAttempts, Attempt(reqAttempts))
         /\ reqResult' = reqResult
    ELSE /\ reqPc' = "done"
         /\ reqSent' = reqSent
         /\ reqAttempts' = reqAttempts
         /\ reqResult' = ExhaustedResult(reqMethod)

\* Math.random(): the values k / RandomSteps, k = 0 .. RandomSteps - 1.
RandomSteps == 10
Randoms == 0..(RandomSteps - 1)

\* GLOBALS.retryDelayBaseInSeconds + Math.floor((GLOBALS.retryDelayRandomMaxInSeconds
\*     - GLOBALS.retryDelayRandomMinInSeconds) * Math.random()), for Math.random() = k / RandomSteps
DelaySecondsAddsMinM(base, min, max, k) == base + min + (((max - min) * k) \div RandomSteps)
DelaySeconds(base, min, max, k) == base + (((max - min) * k) \div RandomSteps)

\* The retry delay settings explored (base, random min, random max): the
\* defaults and two overrides.
RetryDelaySettings ==
    {<<DefaultRetryDelayBaseInSeconds, DefaultRetryDelayRandomMinInSeconds,
       DefaultRetryDelayRandomMaxInSeconds>>,
     <<1, 1, 3>>, <<0, 5, 6>>}

RequestInit ==
    /\ retryMaxCount \in 1..MaxRetryCount
    /\ \E setting \in RetryDelaySettings :
        /\ retryDelayBaseInSeconds = setting[1]
        /\ retryDelayRandomMinInSeconds = setting[2]
        /\ retryDelayRandomMaxInSeconds = setting[3]
    /\ reqMethod \in Methods
    /\ reqPc = "idle"
    /\ reqI = 0
    /\ reqSent = 0
    /\ reqAttempts = <<>>
    /\ reqLog = <<>>
    /\ reqDelays = 0
    /\ reqDelaySeconds = 0
    /\ reqResult = Pending

\* The caller invokes getRequest/postRequest: let i = 0 and the loop head.
RequestCall ==
    /\ reqPc = "idle"
    /\ reqI' = 0
    /\ LoopHead(0)
    /\ UNCHANGED <<retryVars, notRequest>>
    /\ UNCHANGED <<reqMethod, reqLog, reqDelays, reqDelaySeconds>>

\* axios resolves with status 200: return res.data.
RequestRespond200 ==
    /\ reqPc = "axios"
    /\ \E status \in Statuses, d \in Bodies :
        /\ IsSuccess(status)
        /\ reqLog' = Append(reqLog, [status |-> status, data |-> d])
        /\ reqResult' = Data(d)
    /\ reqPc' = "done"
    /\ UNCHANGED <<retryVars, notRequest>>
    /\ UNCHANGED <<reqMethod, reqI, reqSent, reqAttempts, reqDelays, reqDelaySeconds>>

\* axios resolves with another status: start the backoff delay.
RequestRespondOtherNoLastDelayM ==
    /\ reqPc = "axios"
    /\ \E status \in Statuses, d \in Bodies :
        /\ ~IsSuccess(status)
        /\ reqLog' = Append(reqLog, [status |-> status, data |-> d])
    /\ IF reqI + 1 < retryMaxCount
       THEN /\ reqPc' = "delay"
            /\ reqDelays' = reqDelays + 1
            /\ \E random \in Randoms :
                reqDelaySeconds' = DelaySeconds(retryDelayBaseInSeconds,
                                                retryDelayRandomMinInSeconds,
                                                retryDelayRandomMaxInSeconds, random)
            /\ UNCHANGED reqResult
       ELSE /\ reqPc' = "done"
            /\ reqResult' = ExhaustedResult(reqMethod)
            /\ UNCHANGED <<reqDelays, reqDelaySeconds>>
    /\ UNCHANGED <<retryVars, notRequest>>
    /\ UNCHANGED <<reqMethod, reqI, reqSent, reqAttempts>>
RequestRespondOther ==
    /\ reqPc = "axios"
    /\ \E status \in Statuses, d \in Bodies :
        /\ ~IsSuccess(status)
        /\ reqLog' = Append(reqLog, [status |-> status, data |-> d])
    /\ reqPc' = "delay"
    /\ reqDelays' = reqDelays + 1
    /\ \E random \in Randoms :
        reqDelaySeconds' = DelaySeconds(retryDelayBaseInSeconds, retryDelayRandomMinInSeconds,
                                        retryDelayRandomMaxInSeconds, random)
    /\ UNCHANGED <<retryVars, notRequest>>
    /\ UNCHANGED <<reqMethod, reqI, reqSent, reqAttempts, reqResult>>

\* axios rejects (transport-level exception): catch (ex), console.log(ex),
\* return null.
RequestThrow ==
    /\ reqPc = "axios"
    /\ reqLog' = Append(reqLog, [status |-> 0, data |-> "-"])
    /\ out' = Append(out, ExceptionLine)
    /\ reqResult' = CatchResult
    /\ reqPc' = "done"
    /\ UNCHANGED <<retryVars, sessionVars, http, pgVars, queryVars, cookieVars, authVars>>
    /\ UNCHANGED <<args, pc, loginCookie, cabinets, documents, dlIndex, files, settled>>
    /\ UNCHANGED <<reqMethod, reqI, reqSent, reqAttempts, reqDelays, reqDelaySeconds>>

\* The delay elapses: continue, i++, and the loop head again.
RequestDelayElapsed ==
    /\ reqPc = "delay"
    /\ reqI' = reqI + 1
    /\ LoopHead(reqI + 1)
    /\ UNCHANGED <<retryVars, notRequest>>
    /\ UNCHANGED <<reqMethod, reqLog, reqDelays, reqDelaySeconds>>

RequestNext ==
    \/ RequestCall
    \/ RequestRespond200
    \/ RequestRespondOther
    \/ RequestThrow
    \/ RequestDelayElapsed



(***************************************************************************)
(* PART 2  getAllDocumentsFromCabinet: the paginated tabular listing       *)
(***************************************************************************)

\* const batchRequestCount = 1000
batchRequestCount == 1000

\* The largest number of non-empty pages the server answers with in one listing.
MaxNonEmptyPages == 2

\* A request of the listing: GET .../FileCabinets/<cab>/Documents?format=table&start=&count=
\* A request issued through getRequest / postRequest: the url is
\* `${GLOBALS.endpoint}/${url}` and the Cookie header GLOBALS.cookie.
Request(op, ep, ck, cab, doc, start, count) ==
    [op |-> op, endpoint |-> ep, cookie |-> ck, cab |-> cab, doc |-> doc,
     start |-> start, count |-> count]

PageRequest(cab, start) ==
    Request("Documents", endpoint, cookie, cab, "-", start, batchRequestCount)

\* The column layouts of the table (the FieldName of each entry of Headers).
HeaderOrders == {<<"DWDOCID", "SERIAL_NO">>, <<"SERIAL_NO", "DWDOCID">>}

\* The layouts a server may send: those of the well-formed table, and a
\* field name twice, a field called __proto__ (once without a document id,
\* once twice over), and no header at all.
TableLayouts ==
    HeaderOrders \cup
    {<<"DWDOCID", "SERIAL_NO", "SERIAL_NO">>, <<"__proto__", "SERIAL_NO">>,
     <<"DWDOCID", "__proto__", "__proto__">>, <<>>}

\* The server's row for the document with number n, laid out as hdr says; a
\* column that repeats a name carries the value of the next document; a
\* column called __proto__ holds an object, null or a string.
SerialOf(n) == IF n % 2 = 1 THEN "X" ELSE "Y"
ProtoItemOf(n) ==
    CASE n % 3 = 1 -> "{DWDOCID: '9'}"
      [] n % 3 = 2 -> NullItem
      [] OTHER -> "X"
FieldOf(n, name) ==
    IF name = "DWDOCID" THEN ToString(n)
    ELSE IF name = "__proto__" THEN ProtoItemOf(n)
    ELSE SerialOf(n)
ServerRow(n, hdr) ==
    [Items |-> [k \in 1..Len(hdr) |->
                    IF \E j \in 1..(k - 1) : hdr[j] = hdr[k]
                    THEN FieldOf(n + 1, hdr[k])
                    ELSE FieldOf(n, hdr[k])]]

\* A page the server answers with: size rows numbered from base + 1.
ServerPage(hdr, base, size) ==
    [Headers |-> hdr, Rows |-> [j \in 1..size |-> ServerRow(base + j, hdr)]]

\* headers[idx] as a property key: past the end of headers it is undefined,
\* which names the key "undefined".
HeaderAt(headers, k) == IF k <= Len(headers) THEN headers[k] ELSE "undefined"

\* const fieldsMap = {}; row['Items'].forEach((item, idx) => fieldsMap[headers[idx]] = item)
\* The assignments are made position by position.
RECURSIVE FieldsObject(_, _)
FieldsObject(headers, items) ==
    IF Len(items) = 0 THEN EmptyObject
    ELSE Assign(FieldsObject(headers, SubSeq(items, 1, Len(items) - 1)),
                HeaderAt(headers, Len(items)), items[Len(items)])

\* The own properties of fieldsMap after the forEach: a later item under the
\* same header name has overwritten an earlier one.
FieldsMapFirstM(headers, items) ==
    [name \in {HeaderAt(headers, k) : k \in 1..Len(items)} |-> items[1]]
FieldsMap(headers, items) == FieldsObject(headers, items).own

\* The prototype of fieldsMap after the forEach.
PrototypeOf(headers, items) == FieldsObject(headers, items).proto

\* A document record: row is fieldsMap, held as its own properties (row) and
\* its prototype (rowProto).
DocumentRecord(id, cab, own, proto) ==
    [id |-> id, cabinetId |-> cab, row |-> own, rowProto |-> proto]

\* fieldsMap['DWDOCID'], read as every property is: the item stored under
\* that name, else what fieldsMap inherits, else undefined.
DocumentIdOf(own, proto) == ReadProperty(own, proto, "DWDOCID")

\* { id: fieldsMap['DWDOCID'], cabinetId: fileCabinetId, row: fieldsMap }
TableDocument(headers, row, cab) ==
    LET own == FieldsMap(headers, row.Items)
        proto == PrototypeOf(headers, row.Items)
    IN  DocumentRecord(DocumentIdOf(own, proto), cab, own, proto)

\* fetchedDocuments['Rows'].map(...): one document per row, in row order.
ProcessedDocumentsDropM(headers, rows, cab) ==
    [j \in 1..(Len(rows) - 1) |-> TableDocument(headers, rows[j], cab)]
ProcessedDocuments(headers, rows, cab) ==
    [j \in 1..Len(rows) |-> TableDocument(headers, rows[j], cab)]

\* start += batchRequestCount
NextStartM(start) == start + 1
NextStart(start) == start + batchRequestCount

\* !fetchedDocuments['Rows'] || fetchedDocuments['Rows'].length == 0
EndOfListingM(rows) == Len(rows) < batchRequestCount
EndOfListing(rows) == Len(rows) = 0

\* The number of non-empty pages received so far.
NonEmptyPages == Cardinality({j \in 1..Len(pgReceived) : Len(pgReceived[j].Rows) > 0})

\* getAllDocumentsFromCabinet(cab) is called: the locals are set up and the
\* first page is requested.
PagingCall(cab) ==
    /\ pgPc = "idle"
    /\ pgCabinet' = cab
    /\ pgStart' = 0
    /\ pgDocuments' = <<>>
    /\ pgHeaders' = NoHeaders
    /\ http' = Append(http, PageRequest(cab, 0))
    /\ pgPc' = "page"
    /\ UNCHANGED <<pgReceived, srvPageSizes>>

\* if (!headers) headers = fetchedDocuments['Headers'].map(header => header['FieldName'])
HeadersOfEachPageM(headers, page) == HeaderRow(page.Headers)
HeadersAfter(headers, page) == IF headers.isNull THEN HeaderRow(page.Headers) ELSE headers

\* The page request comes back with a table: the headers are taken if there
\* are none yet; an empty row set ends the loop, otherwise the rows are
\* translated and appended and the next window is requested (the caller
\* of this definition records that request).
PagingPage(page) ==
    /\ pgPc = "page"
    /\ pgReceived' = Append(pgReceived, page)
    /\ LET headers == HeadersAfter(pgHeaders, page)
       IN  /\ pgHeaders' = headers
           /\ IF EndOfListing(page.Rows)
              THEN /\ pgPc' = "done"
                   /\ UNCHANGED <<pgStart, pgDocuments>>
              ELSE /\ pgDocuments' = pgDocuments \o ProcessedDocuments(headers.names, page.Rows, pgCabinet)
                   /\ pgStart' = NextStart(pgStart)
                   /\ pgPc' = "page"
    /\ UNCHANGED <<pgCabinet, srvPageSizes>>

\* The pages the server may answer the outstanding request with: the table
\* keeps one layout over a listing; the rows are the window asked for
\* (numbered from start + 1) or, from a server that ignores start, the first
\* rows again.
ServerPagesOf(layouts) ==
    {ServerPage(hdr, base, size) :
        hdr \in (IF pgReceived = <<>> THEN layouts ELSE {pgReceived[1].Headers}),
        base \in {pgStart, 0},
        size \in {n \in srvPageSizes : n = 0 \/ NonEmptyPages < MaxNonEmptyPages}}

\* The pages of a well-formed table (the dispatcher's runs are explored
\* against one).
ServerPages == ServerPagesOf(HeaderOrders)

\* The wrapper returned no result (retries exhausted, or an exception):
\* fetchedDocuments['Headers'] raises a TypeError that nothing catches.
PagingNoResult ==
    /\ pgPc = "page"
    /\ pgPc' = "crashed"
    /\ UNCHANGED <<pgCabinet, pgStart, pgHeaders, pgDocuments, pgReceived, srvPageSizes>>

PagingInit ==
    /\ PagingLocalsInit
    /\ srvPageSizes \in {{0, 1, 2}, {0, 1, batchRequestCount}}

CabinetIds == {"cab1", "cab2"}

PagingStepCall == (\E cab \in CabinetIds : PagingCall(cab)) /\ UNCHANGED notPaging
PagingStepPage ==
    /\ \E page \in ServerPagesOf(TableLayouts) :
        /\ PagingPage(page)
        /\ http' = IF EndOfListing(page.Rows) THEN http
                   ELSE Append(http, PageRequest(pgCabinet, NextStart(pgStart)))
    /\ UNCHANGED notPaging
PagingStepNoResult ==
    /\ PagingNoResult
    /\ \E lines \in NoResultLines : out' = out \o lines
    /\ UNCHANGED <<http, sessionVars, retryVars, reqVars, queryVars, cookieVars, authVars>>
    /\ UNCHANGED <<args, pc, loginCookie, cabinets, documents, dlIndex, files, settled>>

PagingNext ==
    \/ PagingStepCall
    \/ PagingStepPage
    \/ PagingStepNoResult

\* The same listing against a server that is free to lay out every page in its
\* own way.
ServerPagesAnyLayout ==
    {ServerPage(hdr, base, size) :
        hdr \in TableLayouts,
        base \in {pgStart, 0},
        size \in {n \in srvPageSizes : n = 0 \/ NonEmptyPages < MaxNonEmptyPages}}

PagingStepPageAnyLayout ==
    /\ \E page \in ServerPagesAnyLayout :
        /\ PagingPage(page)
        /\ http' = IF EndOfListing(page.Rows) THEN http
                   ELSE Append(http, PageRequest(pgCabinet, NextStart(pgStart)))
    /\ UNCHANGED notPaging

PagingLayoutsNext ==
    \/ PagingStepCall
    \/ PagingStepPageAnyLayout
    \/ PagingStepNoResult

InitPaging == PagingInit /\ SessionInit /\ RetryDefaults /\ RequestIdle /\ QueryIdle /\ CookieIdle /\ CmdIdle /\ AuthIdle
SpecPaging == InitPaging /\ [][PagingNext]_vars
SpecPagingLayouts == InitPaging /\ [][PagingLayoutsNext]_vars

InitRequest == RequestInit /\ SessionInit /\ PagingIdle /\ QueryIdle /\ CookieIdle /\ CmdIdle /\ AuthIdle
SpecRequest == InitRequest /\ [][RequestNext]_vars


(***************************************************************************)
(* Strings: a string is the sequence of its characters                     *)
(***************************************************************************)

\* The first position at or after from where s holds ch; 0 when there is none.
IndexOf(s, ch, from) ==
    IF \E k \in from..Len(s) : s[k] = ch
    THEN CHOOSE k \in from..Len(s) : s[k] = ch /\ \A k2 \in from..(k - 1) : s[k2] # ch
    ELSE 0

\* String.prototype.split(ch) for a one-character separator.
RECURSIVE Split(_, _)
Split(s, ch) ==
    LET k == IndexOf(s, ch, 1)
    IN  IF k = 0 THEN <<s>>
        ELSE <<SubSeq(s, 1, k - 1)>> \o Split(SubSeq(s, k + 1, Len(s)), ch)

\* The characters trim() removes (WhiteSpace and LineTerminator of the
\* language), as far as a string of this module can hold them: tab, line
\* feed, carriage return, form feed, space, then U+000B (vertical tab),
\* U+00A0 (no-break space), U+FEFF (byte order mark) and U+1680 (ogham space
\* mark). U+2000..U+200A, U+2028, U+2029, U+202F, U+205F and U+3000 are also
\* removed by trim() and are outside the alphabet of this module.
WhiteSpace == {"\t", "\n", "\r", "\f", " ", "", " ", "﻿", " "}
IsSpace(ch) == ch \in WhiteSpace

\* String.prototype.trim(): white space removed at both ends.
TrimLeftOnlyM(s) ==
    IF \A k \in 1..Len(s) : IsSpace(s[k]) THEN <<>>
    ELSE SubSeq(s, CHOOSE k \in 1..Len(s) : ~IsSpace(s[k]) /\ \A k2 \in 1..(k - 1) : IsSpace(s[k2]), Len(s))
Trim(s) ==
    IF \A k \in 1..Len(s) : IsSpace(s[k]) THEN <<>>
    ELSE LET first == CHOOSE k \in 1..Len(s) : ~IsSpace(s[k]) /\ \A k2 \in 1..(k - 1) : IsSpace(s[k2])
             last == CHOOSE k \in 1..Len(s) : ~IsSpace(s[k]) /\ \A k2 \in (k + 1)..Len(s) : IsSpace(s[k2])
         IN  SubSeq(s, first, last)

\* Array.prototype.join(sep).
RECURSIVE Join(_, _)
Join(parts, sep) ==
    IF Len(parts) = 0 THEN <<>>
    ELSE IF Len(parts) = 1 THEN parts[1]
    ELSE parts[1] \o sep \o Join(Tail(parts), sep)

(***************************************************************************)
(* PART 3  getDocumentsWithQuery: the query-expression parser              *)
(***************************************************************************)

\* The largest number of conditions in a query string.
MaxConditions == 2

\* value.slice(1, -1): the first and the last character removed.
SliceKeepLastM(value) == SubSeq(value, 2, Len(value))
Slice(value) == SubSeq(value, 2, Len(value) - 1)

\* One element of downloadQueryStr.split('|'):
\*   let [key, value] = conditionStr.split('=').map(x => x.trim());
\*   value = value.slice(1, -1);
\*   return { "DBName": key, "Value": [value] };
\* With no '=' in conditionStr value is undefined and value.slice raises a
\* TypeError.
ConditionTerm(conditionStr) ==
    LET parts == Split(conditionStr, "=")
        key == Trim(parts[1])
    IN  IF Len(parts) < 2
        THEN [ok |-> FALSE, DBName |-> key, Value |-> <<>>]
        ELSE [ok |-> TRUE, DBName |-> key, Value |-> <<Slice(Trim(parts[2]))>>]

\* "Operation": "Or"
QueryOperation == "Or"

\* The jsonBody built by getDocumentsWithQuery, or the TypeError it raises.
QueryBody(str) ==
    LET conds == Split(str, "|")
        terms == [k \in 1..Len(conds) |-> ConditionTerm(conds[k])]
    IN  IF \E k \in 1..Len(terms) : ~terms[k].ok
        THEN [kind |-> "TypeError"]
        ELSE [kind |-> "body",
              Condition |-> [k \in 1..Len(terms) |-> [DBName |-> terms[k].DBName, Value |-> terms[k].Value]],
              Operation |-> QueryOperation]

\* The query strings explored: conditions FIELD = [VALUE] with these field
\* names and values and this white space before and after '=', joined by a
\* separator.
QueryFields == {<<"A">>, <<"B", "C">>}
QueryValues == {<<"1">>, <<"2", " ", "3">>, <<>>, <<"x", "=", "y">>, <<"x", "|", "y">>}
QuerySpace == {<<>>, <<" ">>, <<" ", " ">>}
QuerySeparators == {<<"|">>, <<" ", "|", " ">>}

QueryConditions == [field : QueryFields, value : QueryValues, before : QuerySpace, after : QuerySpace]

\* The text of one condition, and of a query.
ConditionText(c) == c.field \o c.before \o <<"=">> \o c.after \o <<"[">> \o c.value \o <<"]">>
QueryText(conds, sep) == Join([k \in 1..Len(conds) |-> ConditionText(conds[k])], sep)

QueryInputs ==
    UNION {[1..n -> QueryConditions] : n \in 1..MaxConditions}

QueryInit ==
    /\ queryConds \in {cs \in QueryInputs :
                        \* the white space varies in the first condition only
                        \A k \in 2..Len(cs) : cs[k].before = <<" ">> /\ cs[k].after = <<" ">>}
    /\ \E sep \in QuerySeparators : downloadQueryStr = QueryText(queryConds, sep)
    /\ jsonBody = NotRun
    /\ queryRes = <<>>
    /\ queryLink = <<>>

\* getDocumentsWithQuery builds jsonBody from downloadQueryStr.
QueryParse ==
    /\ jsonBody = NotRun
    /\ jsonBody' = QueryBody(downloadQueryStr)
    /\ UNCHANGED <<queryConds, downloadQueryStr, queryRes, queryLink>>
    /\ UNCHANGED notQuery

QueryNext == QueryParse

InitQuery == QueryInit /\ SessionInit /\ RetryDefaults /\ RequestIdle /\ PagingIdle /\ CookieIdle /\ CmdIdle /\ AuthIdle
SpecQuery == InitQuery /\ [][QueryNext]_vars


(***************************************************************************)
(* PART 4  formatCookie                                                    *)
(***************************************************************************)

\* The largest number of Set-Cookie entries in one response.
MaxCookies == 2

\* cookie.match(/^([^=]+)=([^;]+);/): group 1 is the text before the first
\* '=' (not empty), group 2 the text from there to the next ';' (not empty);
\* without such a ';' there is no match.
CookieMatch(entry) ==
    LET eq == IndexOf(entry, "=", 1)
        semi == IF eq = 0 THEN 0 ELSE IndexOf(entry, ";", eq + 1)
    IN  IF eq <= 1 \/ semi = 0 \/ semi = eq + 1
        THEN [matches |-> FALSE, name |-> <<>>, value |-> <<>>]
        ELSE [matches |-> TRUE,
              name |-> SubSeq(entry, 1, eq - 1),
              value |-> SubSeq(entry, eq + 1, semi - 1)]

Digits == {"0", "1", "2", "3", "4", "5", "6", "7", "8", "9"}
DigitValue(ch) ==
    CASE ch = "0" -> 0 [] ch = "1" -> 1 [] ch = "2" -> 2 [] ch = "3" -> 3 [] ch = "4" -> 4
      [] ch = "5" -> 5 [] ch = "6" -> 6 [] ch = "7" -> 7 [] ch = "8" -> 8 [] ch = "9" -> 9

\* The order of two canonical decimal numbers, read off their digits (the
\* shorter one is the smaller; of two of the same length, the one with the
\* smaller digit where they first differ).
IndexLess(a, b) ==
    \/ Len(a) < Len(b)
    \/ /\ Len(a) = Len(b)
       /\ \E k \in 1..Len(a) :
            /\ DigitValue(a[k]) < DigitValue(b[k])
            /\ \A j \in 1..(k - 1) : a[j] = b[j]

\* The largest array index, 2^32 - 2.
MaxArrayIndex == <<"4", "2", "9", "4", "9", "6", "7", "2", "9", "4">>

\* A property key that is an array index (a canonical decimal number up to
\* 2^32 - 2): the keys Object.keys lists first, in ascending numeric order.
IsArrayIndex(key) ==
    /\ Len(key) >= 1
    /\ \A k \in 1..Len(key) : key[k] \in Digits
    /\ (Len(key) > 1 => key[1] # "0")
    /\ ~IndexLess(MaxArrayIndex, key)

\* Whether Object.keys lists a key that is new to the object before a key
\* the object already has: index keys come first, ascending; the other keys
\* follow in the order they were added, so a new one of those goes last.
NewKeyGoesBefore(new, old) ==
    IsArrayIndex(new) /\ (~IsArrayIndex(old) \/ IndexLess(new, old))

\* The key whose assignment sets the prototype instead of a property.
ProtoKey == <<"_", "_", "p", "r", "o", "t", "o", "_", "_">>

\* obj[name] = value on the object whose own keys, in Object.keys order, are
\* those of obj: an existing key keeps its place and takes the new value;
\* obj['__proto__'] = value, value a string, changes nothing.
SetProperty(obj, name, value) ==
    IF name = ProtoKey THEN obj
    ELSE IF \E k \in 1..Len(obj) : obj[k].name = name
    THEN [k \in 1..Len(obj) |-> IF obj[k].name = name THEN [name |-> name, value |-> value] ELSE obj[k]]
    ELSE LET before == SelectSeq(obj, LAMBDA e : ~NewKeyGoesBefore(name, e.name))
             after == SelectSeq(obj, LAMBDA e : NewKeyGoesBefore(name, e.name))
         IN  before \o <<[name |-> name, value |-> value]>> \o after

\* cookieStr.reduce((obj, cookie) => { ...; if (matches) obj[matches[1]] = matches[2]; return obj }, {})
RECURSIVE CookieObj(_)
CookieObj(cookies) ==
    IF Len(cookies) = 0 THEN <<>>
    ELSE LET obj == CookieObj(SubSeq(cookies, 1, Len(cookies) - 1))
             m == CookieMatch(cookies[Len(cookies)])
         IN  IF m.matches THEN SetProperty(obj, m.name, m.value) ELSE obj

\* Object.keys(cookieObj).map(cookie => cookie + '=' + cookieObj[cookie]).join('; ').trim()
formatCookie(cookies) ==
    LET cookieObj == CookieObj(cookies)
    IN  Trim(Join([k \in 1..Len(cookieObj) |-> cookieObj[k].name \o <<"=">> \o cookieObj[k].value],
                  <<";", " ">>))

\* The Set-Cookie entries explored: name=value followed by nothing, by a
\* bare ';' or by attributes.
CookieNames == {<<"a">>, <<"b">>, <<"7">>, <<"1", "0">>, ProtoKey}
CookieValues == {<<"1">>, <<"2">>}
CookieAttributes == {<<>>, <<";">>, <<";", " ", "P", "a", "t", "h", "=", "/">>}
SetCookieEntries ==
    {name \o <<"=">> \o value \o attrs :
        name \in CookieNames, value \in CookieValues, attrs \in CookieAttributes}

CookieInit ==
    /\ cookieStr \in UNION {[1..n -> SetCookieEntries] : n \in 0..MaxCookies}
    /\ formattedCookieStr = NotRun

\* formatCookie(response.headers['set-cookie']) is evaluated.
CookieFormat ==
    /\ formattedCookieStr = NotRun
    /\ formattedCookieStr' = [kind |-> "string", str |-> formatCookie(cookieStr)]
    /\ UNCHANGED cookieStr
    /\ UNCHANGED notCookie

CookieNext == CookieFormat

InitCookie == CookieInit /\ SessionInit /\ RetryDefaults /\ RequestIdle /\ PagingIdle /\ QueryIdle /\ CmdIdle /\ AuthIdle
SpecCookie == InitCookie /\ [][CookieNext]_vars


(***************************************************************************)
(* PART 5  DocuwareCMD.execute: the command dispatcher                     *)
(***************************************************************************)

\* The largest number of cabinets the server lists, and of documents a
\* query matches.
MaxCabinets == 2
MaxDocs == 2

\* The values a flag holds that count as false: undefined, '' and the
\* number 0 (minimist turns a numeric argument into a number).
Falsy == {Absent, "", "0"}
Truthy(v) == v \notin Falsy

\* The command lines explored.
ArgModes == {Absent, "gentoken", "gencookie", "lscabinets", "get", "update", "download",
             "upload", "bogus"}
ArgEndpoints == {Absent, "https://dw"}
ArgUsers == {Absent, "{'SERIAL_NO': 'Z'}", "{bad"}
ArgPaths == {Absent, "path"}
ArgHosts == {Absent, "host"}
ArgCookies == {Absent, "XC"}
ArgTokens == {Absent, "TK"}
ArgCabinets == {Absent, "Meter", "Nope"}
ArgQueries == {Absent, "SERIAL_NO = [X]"}
ArgPredicates == {Absent, "fields['SERIAL_NO'] == 'X'"}
ArgIds == {Absent, "1"}
ArgNames == {Absent, "testdoc"}

\* A flag given without a value (minimist stores true), and a value of one
\* blank (minimist keeps it a string).
FlagAlone == "<true>"
Blank == " "

\* Number(v) for the arguments explored, and isNaN(v): the numbers minimist
\* has parsed; true converts to 1, a blank string to 0; any other string
\* explored converts to NaN.
NumericArgs == {"0", "1", "2", "3", "5"}
NumberOf(v) ==
    CASE v = "0" -> 0 [] v = "1" -> 1 [] v = "2" -> 2 [] v = "3" -> 3 [] v = "5" -> 5
      [] v = FlagAlone -> 1
      [] v = Blank -> 0
IsNaN(v) == v \notin NumericArgs \cup {FlagAlone, Blank}

\* if (args[flag] && !isNaN(args[flag])) GLOBALS.x = Number(args[flag])
Override(v, current) == IF Truthy(v) /\ ~IsNaN(v) THEN NumberOf(v) ELSE current


\* The sequences over S without repetition, of length at most n.
SeqsNoRepeat(S, n) ==
    UNION {{seq \in [1..k -> S] : \A a, b \in 1..k : a # b => seq[a] # seq[b]} : k \in 0..n}

\* What the server lists as file cabinets.
Cabinets ==
    {[Id |-> "cab1", Name |-> "Meter"], [Id |-> "cab2", Name |-> "Meter"],
     [Id |-> "cab3", Name |-> "Other"]}
CabinetLists == SeqsNoRepeat(Cabinets, MaxCabinets)

\* cabinets.filter(cabinet => cabinet.Name == cabinetName)
MatchingCabinetsLastM(cabs, cabinetName) ==
    LET m == SelectSeq(cabs, LAMBDA cabinet : cabinet.Name = cabinetName)
    IN  [k \in 1..Len(m) |-> m[Len(m) + 1 - k]]
MatchingCabinets(cabs, cabinetName) ==
    SelectSeq(cabs, LAMBDA cabinet : cabinet.Name = cabinetName)

\* The three authentication requests are sent with axios directly.
LogonRequest(ep) == Request("Logon", ep, "-", "-", "-", 0, 0)
LoginTokenRequestNoCookieM(ep, ck) == Request("LoginToken", ep, "-", "-", "-", 0, 0)
LoginTokenRequest(ep, ck) == Request("LoginToken", ep, ck, "-", "-", 0, 0)
TokenLogOnRequest(ep, ck) == Request("TokenLogOn", ep, ck, "-", "-", 0, 0)
\* The requests sent through getRequest / postRequest.
FileCabinetsRequestNoCookieM(ep, ck) == Request("FileCabinets", ep, "", "-", "-", 0, 0)
FileCabinetsRequest(ep, ck) == Request("FileCabinets", ep, ck, "-", "-", 0, 0)
UploadRequest(cab) == Request("Upload", endpoint, cookie, cab, "-", 0, 0)
DocumentRequest(cab, id) == Request("Document", endpoint, cookie, cab, id, 0, 0)
QueryLinkRequest(cab) == Request("QueryLink", endpoint, cookie, cab, "-", 0, 0)
QueryFetchRequest(cab) == Request("QueryFetch", endpoint, cookie, cab, "-", 0, 0)
FieldsRequest(cab, id) == Request("Fields", endpoint, cookie, cab, id, 0, 0)
FileDownloadRequest(cab, id) == Request("FileDownload", endpoint, cookie, cab, id, 0, 0)

\* What the server hands out on a successful authentication request.
ServerLoginCookie == "LC"
ServerToken == "TK1"
ServerTokenCookie == "TC"

\* The ways execute leaves a synchronous stretch of code: it returns, it
\* awaits a request it has just issued, or an exception ends it.
Returns(lines) ==
    /\ pc' = "returned"
    /\ out' = out \o lines
    /\ http' = http
AwaitsUnawaitedM(where, lines, request) ==
    /\ pc' = where
    /\ out' = out \o lines
    /\ http' = http \o <<request, request>>
Awaits(where, lines, request) ==
    /\ pc' = where
    /\ out' = out \o lines
    /\ http' = Append(http, request)
Crashes(lines) ==
    /\ pc' = "crashed"
    /\ out' = out \o lines
    /\ http' = http

CmdInit ==
    /\ args \in [m : ArgModes, e : ArgEndpoints, u : ArgUsers, p : ArgPaths, h : ArgHosts,
                 x : ArgCookies, t : ArgTokens, c : ArgCabinets, q : ArgQueries,
                 f : ArgPredicates, i : ArgIds, n : ArgNames,
                 retrymax : {Absent}, retrybase : {Absent},
                 retryrandmin : {Absent}, retryrandmax : {Absent}]
    /\ pc = "start"
    /\ out = <<>>
    /\ loginCookie = ""
    /\ cabinets = <<>>
    /\ documents = <<>>
    /\ dlIndex = 0
    /\ files = <<>>
    /\ settled = 0

\* if (token && cookie) { console.log(`both cookie and token were provided...
\* using existing cookie.`); return; }
BothGiven ==
    /\ Returns(<<Line("both cookie and token were provided... using existing cookie.")>>)
    /\ UNCHANGED cookie

\* gencookie and gentoken: the three credentials are required, then
\* generateToken posts the logon.
CredentialsBranchNoHostM(ep) ==
    IF ~Truthy(args.u) THEN Returns(<<Line("-u username not defined.")>>)
    ELSE IF ~Truthy(args.p) THEN Returns(<<Line("-p password not defined.")>>)
    ELSE Awaits("Logon", <<>>, LogonRequest(ep))
CredentialsBranch(ep) ==
    IF ~Truthy(args.u) THEN Returns(<<Line("-u username not defined.")>>)
    ELSE IF ~Truthy(args.p) THEN Returns(<<Line("-p password not defined.")>>)
    ELSE IF ~Truthy(args.h) THEN Returns(<<Line("-h hostname not defined.")>>)
    ELSE Awaits("Logon", <<>>, LogonRequest(ep))

\* execute from its first line to its first await or return.
CmdStart ==
    /\ pc = "start"
    /\ UNCHANGED settled
    /\ retryMaxCount' = Override(args.retrymax, retryMaxCount)
    /\ retryDelayBaseInSeconds' = Override(args.retrybase, retryDelayBaseInSeconds)
    /\ retryDelayRandomMinInSeconds' = Override(args.retryrandmin, retryDelayRandomMinInSeconds)
    /\ retryDelayRandomMaxInSeconds' = Override(args.retryrandmax, retryDelayRandomMaxInSeconds)
    /\ IF ~Truthy(args.m)
       THEN Returns(<<Line("-m mode not defined.")>>) /\ UNCHANGED <<endpoint, cookie>>
       ELSE /\ endpoint' = args.e
            /\ IF ~Truthy(args.e)
               THEN Returns(<<Line("-e endpoint not defined.")>>) /\ UNCHANGED cookie
               ELSE IF args.m \in {"gencookie", "gentoken"}
               THEN CredentialsBranch(args.e) /\ UNCHANGED cookie
               ELSE IF ~Truthy(args.t) /\ ~Truthy(args.x)
               THEN /\ Returns(<<Line("neither token -t nor cookie -c defined.")>>)
                    /\ UNCHANGED cookie
               ELSE IF Truthy(args.t) /\ Truthy(args.x)
               THEN BothGiven
               ELSE IF Truthy(args.t) /\ ~Truthy(args.x)
               THEN \* initAuthFromToken posts the token logon
                    /\ Awaits("TokenLogOn", <<>>, TokenLogOnRequest(args.e, cookie))
                    /\ UNCHANGED cookie
               ELSE /\ cookie' = args.x
                    /\ Awaits("FileCabinets", <<>>, FileCabinetsRequest(args.e, args.x))
    /\ UNCHANGED <<args, loginCookie, cabinets, documents, dlIndex, files>>
    /\ UNCHANGED <<reqVars, pgVars, queryVars, cookieVars, authVars>>

\* An authentication request fails (axios rejects on a transport failure or
\* on a status outside 2xx): nothing catches the exception.
CmdAuthFails ==
    /\ pc \in {"Logon", "LoginToken", "TokenLogOn"}
    /\ settled' = settled + 1
    /\ Crashes(<<>>)
    /\ UNCHANGED <<args, loginCookie, cabinets, documents, dlIndex, files>>
    /\ UNCHANGED <<sessionVars, retryVars, reqVars, pgVars, queryVars, cookieVars, authVars>>

\* generateToken: the logon answered; its cookie goes with the token request.
CmdLogon ==
    /\ pc = "Logon"
    /\ settled' = settled + 1
    /\ loginCookie' = ServerLoginCookie
    /\ Awaits("LoginToken", <<>>, LoginTokenRequest(endpoint, ServerLoginCookie))
    /\ UNCHANGED <<args, cabinets, documents, dlIndex, files>>
    /\ UNCHANGED <<sessionVars, retryVars, reqVars, pgVars, queryVars, cookieVars, authVars>>

\* generateToken: the token arrived; GLOBALS.cookie = loginCookie; return
\* token.  gentoken prints it; gencookie goes on with initAuthFromToken.
CmdLoginTokenGoesOnM ==
    /\ pc = "LoginToken"
    /\ settled' = settled + 1
    /\ cookie' = loginCookie
    /\ Awaits("TokenLogOn", <<>>, TokenLogOnRequest(endpoint, loginCookie))
    /\ UNCHANGED endpoint
    /\ UNCHANGED <<args, loginCookie, cabinets, documents, dlIndex, files>>
    /\ UNCHANGED <<retryVars, reqVars, pgVars, queryVars, cookieVars, authVars>>
CmdLoginToken ==
    /\ pc = "LoginToken"
    /\ settled' = settled + 1
    /\ cookie' = loginCookie
    /\ IF args.m = "gentoken"
       THEN Returns(<<Line(ServerToken)>>)
       ELSE Awaits("TokenLogOn", <<>>, TokenLogOnRequest(endpoint, loginCookie))
    /\ UNCHANGED endpoint
    /\ UNCHANGED <<args, loginCookie, cabinets, documents, dlIndex, files>>
    /\ UNCHANGED <<retryVars, reqVars, pgVars, queryVars, cookieVars, authVars>>

\* initAuthFromToken: the token logon answered; GLOBALS.cookie = tokenCookie.
\* gencookie prints the cookie; the other modes fetch the cabinet list.
CmdTokenLogOnKeepsCookieM ==
    /\ pc = "TokenLogOn"
    /\ settled' = settled + 1
    /\ IF args.m = "gencookie"
       THEN Returns(<<Line(cookie)>>)
       ELSE Awaits("FileCabinets", <<>>, FileCabinetsRequest(endpoint, cookie))
    /\ UNCHANGED <<endpoint, cookie>>
    /\ UNCHANGED <<args, loginCookie, cabinets, documents, dlIndex, files>>
    /\ UNCHANGED <<retryVars, reqVars, pgVars, queryVars, cookieVars, authVars>>
CmdTokenLogOn ==
    /\ pc = "TokenLogOn"
    /\ settled' = settled + 1
    /\ cookie' = ServerTokenCookie
    /\ IF args.m = "gencookie"
       THEN Returns(<<Line(ServerTokenCookie)>>)
       ELSE Awaits("FileCabinets", <<>>, FileCabinetsRequest(endpoint, ServerTokenCookie))
    /\ UNCHANGED endpoint
    /\ UNCHANGED <<args, loginCookie, cabinets, documents, dlIndex, files>>
    /\ UNCHANGED <<retryVars, reqVars, pgVars, queryVars, cookieVars, authVars>>

\* The characters of the query strings explored.
QueryChars(q) ==
    CASE q = "SERIAL_NO = [X]" ->
            <<"S", "E", "R", "I", "A", "L", "_", "N", "O", " ", "=", " ", "[", "X", "]">>
      [] OTHER -> <<>>

\* Function("fields", `return ${downloadFunctionStr}`)(row) for the
\* predicates explored.
PredicateHolds(f, document) ==
    CASE f = "fields['SERIAL_NO'] == 'X'" ->
            ReadProperty(document.row, document.rowProto, "SERIAL_NO") = "X"
      [] OTHER -> FALSE

\* JSON.parse(updateJSONStr) succeeds, for the update arguments explored
\* (after every ' has become ").
ParsesAsJsonAnythingM(u) == TRUE
ParsesAsJson(u) == u \in {"{'SERIAL_NO': 'Z'}"}

\* `${fileName}_${i}.pdf`
DocumentTitleNoIndexM(fileName, i) == fileName \o ".pdf"
DocumentTitle(fileName, i) == fileName \o "_" \o ToString(i) \o ".pdf"

\* The server's detail of document id: the list data.Fields; an Item may be null.
DocumentDetails(id) ==
    {[Fields |-> <<[FieldName |-> "DWDOCID", Item |-> id], [FieldName |-> "SERIAL_NO", Item |-> s]>>] :
        s \in {"X", NullItem}}

\* field.Item || "": an Item of the server is a string or null; null and the
\* empty string give "", every other string (the string "0" too) is kept.
ItemOrEmpty(item) == IF item \in {Absent, NullItem, ""} THEN "" ELSE item

\* getDocument: data.Fields.reduce((obj, field) => { obj[field.FieldName] = field.Item || ""; ... }, {})
getDocument(cabinetId, id, data) ==
    LET fields == data.Fields
        items == [k \in 1..Len(fields) |-> ItemOrEmpty(fields[k].Item)]
        names == [k \in 1..Len(fields) |-> fields[k].FieldName]
    IN  DocumentRecord(id, cabinetId, FieldsMap(names, items), PrototypeOf(names, items))

\* The server's answer to the fetch of a query link: Count and Items.
QueryItem(n) ==
    [Fields |-> <<[FieldName |-> "DWDOCID", Item |-> ToString(n)],
                  [FieldName |-> "SERIAL_NO", Item |-> SerialOf(n)]>>]
QueryResults ==
    {[Count |-> [Value |-> Len(items)], Items |-> items] :
        items \in SeqsNoRepeat({QueryItem(n) : n \in 1..MaxDocs}, MaxDocs)}

\* if (fetchedDocuments.Count.Value == 0) return []: the statement that reads
\* fetchedDocuments.Items[0].Fields is reached with a non-zero count only.
ReadsFirstItemAlwaysM(fetchedDocuments) == TRUE
ReadsFirstItem(fetchedDocuments) == fetchedDocuments.Count.Value # 0

\* getDocumentsWithQuery, from fetchedDocuments on: the documents returned,
\* or the TypeError raised by fetchedDocuments.Items[0].Fields when Items is
\* empty.
QueryDocuments(cabinetId, fetchedDocuments) ==
    IF ~ReadsFirstItem(fetchedDocuments) THEN [raises |-> FALSE, documents |-> <<>>]
    ELSE IF Len(fetchedDocuments.Items) = 0 THEN [raises |-> TRUE, documents |-> <<>>]
    ELSE LET first == fetchedDocuments.Items[1].Fields
             headers == [k \in 1..Len(first) |-> first[k].FieldName]
         IN  [raises |-> FALSE,
              documents |->
                [j \in 1..Len(fetchedDocuments.Items) |->
                    LET fields == fetchedDocuments.Items[j].Fields
                        items == [k \in 1..Len(fields) |-> fields[k].Item]
                        own == FieldsMap(headers, items)
                        proto == PrototypeOf(headers, items)
                    IN  DocumentRecord(DocumentIdOf(own, proto), cabinetId, own, proto)]]

\* matchingCabinets[0].Id
CabinetId == MatchingCabinets(cabinets, args.c)[1].Id

\* documents.length > 1
TooManyForUpdateM(docs) == FALSE
TooManyForUpdate(docs) == Len(docs) > 1

\* case 'update'
UpdateBranch(docs, lines) ==
    IF ~Truthy(args.u) THEN Returns(lines \o <<Line("-u update json not defined.")>>)
    ELSE IF ~ParsesAsJson(args.u)
    THEN Returns(lines \o <<Line("-u is not valid json (remember to use single quotes).")>>)
    ELSE IF TooManyForUpdate(docs)
    THEN Returns(lines \o <<Line("Multiple matching documents found, tighten the fitler function.")>>)
    ELSE Awaits("Fields", lines \o <<Line("Updating document...")>>,
                FieldsRequest(CabinetId, docs[1].id))

\* case 'download', up to the first request of the loop
DownloadBranchNoPrefixCheckM(docs, lines) ==
    IF ~Truthy(args.p) THEN Returns(lines \o <<Line("-p write folder path not specified.")>>)
    ELSE Awaits("FileDownload", lines \o <<Line("Starting downloads for \"" \o args.c \o "\"")>>,
                FileDownloadRequest(CabinetId, docs[1].id))
DownloadBranch(docs, lines) ==
    IF ~Truthy(args.p) THEN Returns(lines \o <<Line("-p write folder path not specified.")>>)
    ELSE IF ~Truthy(args.n) THEN Returns(lines \o <<Line("-n file name perfix not specified.")>>)
    ELSE Awaits("FileDownload", lines \o <<Line("Starting downloads for \"" \o args.c \o "\"")>>,
                FileDownloadRequest(CabinetId, docs[1].id))

\* execute from "Completed document fetching." to the next await or return.
AfterFetchDefaultDownloadsM(docs) ==
    LET lines == <<Line("Completed document fetching.")>>
    IN  /\ documents' = docs
        /\ dlIndex' = 0
        /\ files' = files
        /\ IF Len(docs) = 0 THEN Returns(lines \o <<Line("No matching documents found.")>>)
           ELSE IF args.m = "get" THEN Returns(lines \o <<JsonLine(docs)>>)
           ELSE IF args.m = "update" THEN UpdateBranch(docs, lines)
           ELSE DownloadBranch(docs, lines)
AfterFetch(docs) ==
    LET lines == <<Line("Completed document fetching.")>>
    IN  /\ documents' = docs
        /\ dlIndex' = 0
        /\ files' = files
        /\ IF Len(docs) = 0 THEN Returns(lines \o <<Line("No matching documents found.")>>)
           ELSE IF args.m = "get" THEN Returns(lines \o <<JsonLine(docs)>>)
           ELSE IF args.m = "update" THEN UpdateBranch(docs, lines)
           ELSE IF args.m = "download" THEN DownloadBranch(docs, lines)
           ELSE Returns(lines \o <<Line("Mode \"" \o args.m \o "\" not supported, use one of upload/update/download.")>>)

\* The document set is resolved by exactly one of id, query, predicate, all.
ResolveDocumentsQueryFirstM(cab, lines) ==
    IF Truthy(args.q)
    THEN LET str == QueryChars(args.q)
             body == QueryBody(str)
         IN  /\ downloadQueryStr' = str
             /\ jsonBody' = body
             /\ UNCHANGED <<queryConds, queryRes, queryLink>>
             /\ IF body.kind = "TypeError" THEN Crashes(lines)
                ELSE Awaits("QueryLink", lines, QueryLinkRequest(cab))
             /\ UNCHANGED pgVars
    ELSE IF Truthy(args.i)
    THEN /\ Awaits("Document", lines, DocumentRequest(cab, args.i))
         /\ UNCHANGED <<pgVars, queryVars>>
    ELSE IF Truthy(args.f) \/ args.m # "update"
    THEN /\ PagingCall(cab)
         /\ pc' = "Listing"
         /\ out' = out \o lines
         /\ UNCHANGED queryVars
    ELSE /\ Returns(lines \o <<Line("None of -f -q -i defined.")>>)
         /\ UNCHANGED <<pgVars, queryVars>>
ResolveDocuments(cab, lines) ==
    IF Truthy(args.i)
    THEN /\ Awaits("Document", lines, DocumentRequest(cab, args.i))
         /\ UNCHANGED <<pgVars, queryVars>>
    ELSE IF Truthy(args.q)
    THEN LET str == QueryChars(args.q)
             body == QueryBody(str)
         IN  /\ downloadQueryStr' = str
             /\ jsonBody' = body
             /\ UNCHANGED <<queryConds, queryRes, queryLink>>
             /\ IF body.kind = "TypeError" THEN Crashes(lines)
                ELSE Awaits("QueryLink", lines, QueryLinkRequest(cab))
             /\ UNCHANGED pgVars
    ELSE IF Truthy(args.f) \/ args.m # "update"
    THEN /\ PagingCall(cab)
         /\ pc' = "Listing"
         /\ out' = out \o lines
         /\ UNCHANGED queryVars
    ELSE /\ Returns(lines \o <<Line("None of -f -q -i defined.")>>)
         /\ UNCHANGED <<pgVars, queryVars>>

\* cabinets.forEach(cabinet => console.log(`${cabinet.Name}: ${cabinet.Id}`))
CabinetLinesNamesOnlyM(cabs) == [k \in 1..Len(cabs) |-> Line(cabs[k].Name)]
CabinetLines(cabs) == [k \in 1..Len(cabs) |-> Line(cabs[k].Name \o ": " \o cabs[k].Id)]

\* The cabinet list arrived: execute from there to the next await or return.
CmdFileCabinets ==
    /\ pc = "FileCabinets"
    /\ HasAttempt
    /\ settled' = settled + 1
    /\ \E cabs \in CabinetLists :
        LET matchingCabinets == MatchingCabinets(cabs, args.c)
            warning == IF Len(matchingCabinets) > 1
                       THEN <<Line("WARNING: There are multiple cabinets with the name \""
                                    \o args.c \o "\", using the first one.")>>
                       ELSE <<>>
        IN  /\ cabinets' = cabs
            /\ IF args.m = "lscabinets"
               THEN /\ Returns(CabinetLines(cabs))
                    /\ UNCHANGED <<pgVars, queryVars>>
               ELSE IF ~Truthy(args.c)
               THEN /\ Returns(<<Line("-c cabinet name not defined.")>>)
                    /\ UNCHANGED <<pgVars, queryVars>>
               ELSE IF Len(matchingCabinets) = 0
               THEN /\ Returns(<<Line("No matching cabinet(s) for \"" \o args.c \o "\".")>>)
                    /\ UNCHANGED <<pgVars, queryVars>>
               ELSE IF args.m = "upload"
               THEN /\ IF ~Truthy(args.p)
                       THEN Returns(warning \o <<Line("-p read path not specified.")>>)
                       ELSE Awaits("Upload", warning, UploadRequest(matchingCabinets[1].Id))
                    /\ UNCHANGED <<pgVars, queryVars>>
               ELSE ResolveDocuments(matchingCabinets[1].Id,
                                     warning \o <<Line("Fetching documents...")>>)
    /\ UNCHANGED <<args, loginCookie, documents, dlIndex, files>>
    /\ UNCHANGED <<sessionVars, retryVars, reqVars, cookieVars, authVars>>

\* The wrapper an operation goes through: uploadDocument, updateDocument and
\* the query post use postRequest, the others getRequest.
MethodOf(op) == IF op \in {"Upload", "QueryLink", "Fields"} THEN "post" ELSE "get"

\* The wrapper returns without a result, having written lines: the loop ran
\* out (nothing written), or an exception was caught and logged (reqResult
\* keeps what it returned).
ReturnsNoResult(method, lines) ==
    /\ reqResult' = IF lines = <<>> THEN ExhaustedResult(method) ELSE CatchResult
    /\ UNCHANGED <<reqMethod, reqPc, reqI, reqSent, reqAttempts, reqLog, reqDelays, reqDelaySeconds>>

\* The wrapper returned no result (retries exhausted, or an exception) where
\* execute or the helper it called reads a property of the result: a
\* TypeError that nothing catches.
CmdNoResultEmptyResultM ==
    /\ pc \in {"FileCabinets", "Upload", "Document", "QueryLink", "QueryFetch"}
    /\ settled' = settled + 1
    /\ \E lines \in NoResultLines :
        /\ ReturnsNoResult(MethodOf(pc), lines)
        /\ Returns(lines)
    /\ UNCHANGED <<args, loginCookie, cabinets, documents, dlIndex, files>>
    /\ UNCHANGED <<sessionVars, retryVars, pgVars, queryVars, cookieVars, authVars>>
CmdNoResult ==
    /\ pc \in {"FileCabinets", "Upload", "Document", "QueryLink", "QueryFetch"}
    /\ settled' = settled + 1
    /\ \E lines \in NoResultLines :
        /\ ReturnsNoResult(MethodOf(pc), lines)
        /\ Crashes(lines)
    /\ UNCHANGED <<args, loginCookie, cabinets, documents, dlIndex, files>>
    /\ UNCHANGED <<sessionVars, retryVars, pgVars, queryVars, cookieVars, authVars>>

\* uploadDocument returned the new document: its id and link are printed.
CmdUpload ==
    /\ pc = "Upload"
    /\ HasAttempt
    /\ settled' = settled + 1
    /\ Returns(<<Line("DWDOCID: ..."), Line("LINK: ..."), Line("File uploaded")>>)
    /\ UNCHANGED <<args, loginCookie, cabinets, documents, dlIndex, files>>
    /\ UNCHANGED <<sessionVars, retryVars, reqVars, pgVars, queryVars, cookieVars, authVars>>

\* getDocument returned: documents.push(it), then the dispatch on the mode.
CmdDocument ==
    /\ pc = "Document"
    /\ HasAttempt
    /\ settled' = settled + 1
    /\ \E data \in DocumentDetails(args.i) :
        AfterFetch(<<getDocument(CabinetId, args.i, data)>>)
    /\ UNCHANGED <<args, loginCookie, cabinets>>
    /\ UNCHANGED <<sessionVars, retryVars, reqVars, pgVars, queryVars, cookieVars, authVars>>

\* What the server answers the post of the body with: a link, one character
\* in front of it.
ServerQueryLinks ==
    {<<"x", "/", "q", "1">>, <<"/", "/", "q", "2">>}

\* res.substring(1)
Substring1KeepsAllM(str) == str
Substring1(str) == SubSeq(str, 2, Len(str))

\* getDocumentsWithQuery: the expression link arrived; it is fetched, less
\* its first character.
CmdQueryLink ==
    /\ pc = "QueryLink"
    /\ HasAttempt
    /\ settled' = settled + 1
    /\ \E res \in ServerQueryLinks :
        /\ queryRes' = res
        /\ queryLink' = Substring1(res)
    /\ Awaits("QueryFetch", <<>>, QueryFetchRequest(CabinetId))
    /\ UNCHANGED <<queryConds, downloadQueryStr, jsonBody>>
    /\ UNCHANGED <<args, loginCookie, cabinets, documents, dlIndex, files>>
    /\ UNCHANGED <<sessionVars, retryVars, reqVars, pgVars, cookieVars, authVars>>

\* getDocumentsWithQuery: the matching documents arrived (reqResult keeps
\* what getRequest returned).
CmdQueryFetch ==
    /\ pc = "QueryFetch"
    /\ HasAttempt
    /\ settled' = settled + 1
    /\ \E fetchedDocuments \in QueryResults :
        /\ reqResult' = Data(fetchedDocuments)
        /\ LET result == QueryDocuments(CabinetId, fetchedDocuments)
           IN  IF result.raises
               THEN \* Items[0] is undefined: reading its Fields is a TypeError
                    /\ Crashes(<<>>)
                    /\ UNCHANGED <<documents, dlIndex, files>>
               ELSE AfterFetch(result.documents)
    /\ UNCHANGED <<args, loginCookie, cabinets>>
    /\ UNCHANGED <<reqMethod, reqPc, reqI, reqSent, reqAttempts, reqLog, reqDelays, reqDelaySeconds>>
    /\ UNCHANGED <<sessionVars, retryVars, pgVars, queryVars, cookieVars, authVars>>

\* The documents getDocumentsWithFunction keeps of the listing; without a
\* predicate (the listing was asked for as a whole) all of them.
ListedDocumentsUnfilteredM(docs) == docs
ListedDocuments(docs) ==
    IF Truthy(args.f)
    THEN SelectSeq(docs, LAMBDA document : PredicateHolds(args.f, document))
    ELSE docs

\* A page of the listing arrived: the next page is requested, or the listing
\* is over and execute goes on with the documents.
CmdListingPage ==
    /\ pc = "Listing"
    /\ HasAttempt
    /\ settled' = settled + 1
    /\ \E page \in ServerPages :
        /\ PagingPage(page)
        /\ IF EndOfListing(page.Rows)
           THEN AfterFetch(ListedDocuments(pgDocuments))
           ELSE /\ http' = Append(http, PageRequest(pgCabinet, NextStart(pgStart)))
                /\ UNCHANGED <<pc, out, documents, dlIndex, files>>
    /\ UNCHANGED <<args, loginCookie, cabinets>>
    /\ UNCHANGED <<sessionVars, retryVars, reqVars, queryVars, cookieVars, authVars>>

\* A page request returned no result: the TypeError of the listing ends execute.
CmdListingNoResult ==
    /\ pc = "Listing"
    /\ settled' = settled + 1
    /\ PagingNoResult
    /\ \E lines \in NoResultLines :
        /\ ReturnsNoResult("get", lines)
        /\ Crashes(lines)
    /\ UNCHANGED <<args, loginCookie, cabinets, documents, dlIndex, files>>
    /\ UNCHANGED <<sessionVars, retryVars, queryVars, cookieVars, authVars>>

\* updateDocument returned (its result is not looked at; an exception of the
\* request was logged by the wrapper).
CmdFields ==
    /\ pc = "Fields"
    /\ settled' = settled + 1
    /\ \E lines \in NoResultLines :
        Returns(lines \o <<Line("Completed document update...")>>)
    /\ UNCHANGED <<args, loginCookie, cabinets, documents, dlIndex, files>>
    /\ UNCHANGED <<sessionVars, retryVars, reqVars, pgVars, queryVars, cookieVars, authVars>>

\* downloadDocument returned a stream: the file is created and the stream
\* piped into it.
CmdFileDownload ==
    /\ pc = "FileDownload"
    /\ HasAttempt
    /\ settled' = settled + 1
    /\ files' = Append(files, [name |-> DocumentTitle(args.n, dlIndex), closed |-> FALSE])
    /\ pc' = "FileClose"
    /\ UNCHANGED <<out, http>>
    /\ UNCHANGED <<args, loginCookie, cabinets, documents, dlIndex>>
    /\ UNCHANGED <<sessionVars, retryVars, reqVars, pgVars, queryVars, cookieVars, authVars>>

\* downloadDocument returned no stream: the file is created, then
\* stream.pipe raises a TypeError.
CmdFileDownloadNoResult ==
    /\ pc = "FileDownload"
    /\ settled' = settled + 1
    /\ files' = Append(files, [name |-> DocumentTitle(args.n, dlIndex), closed |-> FALSE])
    /\ \E lines \in NoResultLines :
        /\ ReturnsNoResult("get", lines)
        /\ Crashes(lines)
    /\ UNCHANGED <<args, loginCookie, cabinets, documents, dlIndex>>
    /\ UNCHANGED <<sessionVars, retryVars, pgVars, queryVars, cookieVars, authVars>>

\* console.log(`File "${documentTitle}" downloaded.`)
FileDownloadedLine == Line("File \"" \o DocumentTitle(args.n, dlIndex) \o "\" downloaded.")

\* The file is closed: i++, and the next document or the end of the loop.
CmdFileClose ==
    /\ pc = "FileClose"
    /\ UNCHANGED settled
    /\ files' = [files EXCEPT ![Len(files)].closed = TRUE]
    /\ dlIndex' = dlIndex + 1
    /\ IF dlIndex + 1 < Len(documents)
       THEN Awaits("FileDownload", <<FileDownloadedLine>>,
                   FileDownloadRequest(CabinetId, documents[dlIndex + 2].id))
       ELSE Returns(<<FileDownloadedLine,
                      Line("Downloads completed for \"" \o args.c \o "\"")>>)
    /\ UNCHANGED <<args, loginCookie, cabinets, documents>>
    /\ UNCHANGED <<sessionVars, retryVars, reqVars, pgVars, queryVars, cookieVars, authVars>>

Next ==
    \/ CmdStart
    \/ CmdAuthFails
    \/ CmdLogon
    \/ CmdLoginToken
    \/ CmdTokenLogOn
    \/ CmdFileCabinets
    \/ CmdNoResult
    \/ CmdUpload
    \/ CmdDocument
    \/ CmdQueryLink
    \/ CmdQueryFetch
    \/ CmdListingPage
    \/ CmdListingNoResult
    \/ CmdFields
    \/ CmdFileDownload
    \/ CmdFileDownloadNoResult
    \/ CmdFileClose

Init ==
    /\ CmdInit
    /\ SessionInit
    /\ RetryDefaults
    /\ RequestIdle
    /\ PagingLocalsInit
    /\ srvPageSizes = {0, 2}
    /\ QueryIdle
    /\ CookieIdle
    /\ AuthIdle

Spec == Init /\ [][Next]_vars


(***************************************************************************)
(* PART 6  DocuwareHelper used as a module: the authentication calls, and  *)
(*         a request of the retry wrapper under way beside them            *)
(***************************************************************************)

\* The largest number of authentication calls made one after the other.
MaxAuthCalls == 2
\* retryMaxCount while the module is explored (the default is 100).
HelperRetryCount == 2

\* The endpoints a caller names, and the three exported functions.
HelperEndpoints == {"https://a", "https://b"}
AuthFunctions == {"generateToken", "initAuthFromToken", "initAuthFromCreds"}

\* The cookie the server at ep hands out on a logon, and on a token logon.
LoginCookieOf(ep) == ServerLoginCookie \o "@" \o ep
TokenCookieOf(ep) == ServerTokenCookie \o "@" \o ep

\* The call is over: it returned, or the exception of axios went up to the
\* caller.  The log keeps the session it leaves behind.
AuthEnds(call, outcome) ==
    /\ authLog' = Append(authLog, [fn |-> call.fn, endpoint |-> call.endpoint,
                                   sent |-> call.sent, outcome |-> outcome,
                                   cookieBefore |-> call.cookieBefore,
                                   startedAfter |-> call.startedAfter,
                                   endedAfter |-> reqSent,
                                   endpointAfter |-> endpoint', cookieAfter |-> cookie'])
    /\ authCall' = NoCall
    /\ authPc' = "idle"

\* One of the three functions is called (no other authentication call is
\* under way): GLOBALS.endpoint = endpoint, then the first request.
AuthCall ==
    /\ authPc = "idle"
    /\ Len(authLog) < MaxAuthCalls
    /\ \E fn \in AuthFunctions, ep \in HelperEndpoints :
        LET first == IF fn = "initAuthFromToken" THEN TokenLogOnRequest(ep, cookie)
                     ELSE LogonRequest(ep)
        IN  /\ endpoint' = ep
            /\ authCall' = [fn |-> fn, endpoint |-> ep, sent |-> <<first>>,
                            loginCookie |-> "", cookieBefore |-> cookie,
                            startedAfter |-> reqSent]
            /\ authPc' = first.op
    /\ UNCHANGED <<cookie, authLog>>
    /\ UNCHANGED notAuth

\* axios rejects the authentication request awaited (transport failure, or a
\* status outside 2xx: validateStatus is not set): no try surrounds it.
AuthThrowsRetriesM ==
    /\ authPc # "idle"
    /\ Len(authCall.sent) < 4
    /\ authCall' = [authCall EXCEPT !.sent = Append(@, @[Len(@)])]
    /\ UNCHANGED <<sessionVars, authPc, authLog>>
    /\ UNCHANGED notAuth
AuthThrows ==
    /\ authPc # "idle"
    /\ UNCHANGED sessionVars
    /\ AuthEnds(authCall, "threw")
    /\ UNCHANGED notAuth

\* generateToken: the logon answered; loginCookie is the cookie of the server
\* asked, and goes with the token request.
AuthLogon ==
    /\ authPc = "Logon"
    /\ LET loginCookie0 == LoginCookieOf(authCall.sent[Len(authCall.sent)].endpoint)
       IN  authCall' = [authCall EXCEPT
                            !.loginCookie = loginCookie0,
                            !.cookieBefore = cookie,
                            !.sent = Append(@, LoginTokenRequest(endpoint, loginCookie0))]
    /\ authPc' = "LoginToken"
    /\ UNCHANGED <<sessionVars, authLog>>
    /\ UNCHANGED notAuth

\* generateToken: the token arrived; GLOBALS.cookie = loginCookie; return
\* token.  initAuthFromCreds goes on with initAuthFromToken(token, endpoint).
AuthLoginToken ==
    /\ authPc = "LoginToken"
    /\ cookie' = authCall.loginCookie
    /\ IF authCall.fn = "generateToken"
       THEN /\ endpoint' = endpoint
            /\ AuthEnds(authCall, "returned")
       ELSE /\ endpoint' = authCall.endpoint
            /\ authCall' = [authCall EXCEPT
                                !.cookieBefore = authCall.loginCookie,
                                !.sent = Append(@, TokenLogOnRequest(authCall.endpoint,
                                                                     authCall.loginCookie))]
            /\ authPc' = "TokenLogOn"
            /\ UNCHANGED authLog
    /\ UNCHANGED notAuth

\* initAuthFromToken: the token logon answered; GLOBALS.cookie = tokenCookie.
AuthTokenLogOn ==
    /\ authPc = "TokenLogOn"
    /\ cookie' = TokenCookieOf(authCall.sent[Len(authCall.sent)].endpoint)
    /\ endpoint' = endpoint
    /\ AuthEnds(authCall, "returned")
    /\ UNCHANGED notAuth

\* The module with a caller that authenticates, call after call, while one
\* request of the wrapper runs.
HelperNext ==
    \/ AuthCall
    \/ AuthThrows
    \/ AuthLogon
    \/ AuthLoginToken
    \/ AuthTokenLogOn
    \/ RequestCall
    \/ RequestRespond200
    \/ RequestRespondOther
    \/ RequestThrow
    \/ RequestDelayElapsed

\* The retry policy is cut down to two attempts and to delays of one length
\* (base 0, random part below one second): neither plays a part here.
InitHelper ==
    /\ SessionInit
    /\ retryMaxCount = HelperRetryCount
    /\ retryDelayBaseInSeconds = 0
    /\ retryDelayRandomMinInSeconds = 5
    /\ retryDelayRandomMaxInSeconds = 6
    /\ RequestIdle
    /\ AuthIdle
    /\ PagingIdle /\ QueryIdle /\ CookieIdle /\ CmdIdle

SpecHelper == InitHelper /\ [][HelperNext]_vars


(***************************************************************************)
(* PART 7  The retry overrides of the command line                         *)
(***************************************************************************)

\* One command line per mode, the overrides left out.
NoOverrides ==
    [m |-> Absent, e |-> "https://dw", u |-> Absent, p |-> Absent, h |-> Absent,
     x |-> Absent, t |-> Absent, c |-> Absent, q |-> Absent, f |-> Absent, i |-> Absent,
     n |-> Absent, retrymax |-> Absent, retrybase |-> Absent, retryrandmin |-> Absent,
     retryrandmax |-> Absent]
BaseCommandLines ==
    {[NoOverrides EXCEPT !.m = "gencookie", !.u = "{bad", !.p = "path", !.h = "host"],
     [NoOverrides EXCEPT !.m = "upload", !.x = "XC", !.c = "Meter", !.p = "path"],
     [NoOverrides EXCEPT !.m = "update", !.t = "TK", !.c = "Meter", !.i = "1",
                         !.u = "{'SERIAL_NO': 'Z'}"],
     [NoOverrides EXCEPT !.m = "download", !.x = "XC", !.c = "Meter",
                         !.q = "SERIAL_NO = [X]", !.p = "path", !.n = "testdoc"],
     [NoOverrides EXCEPT !.m = "get", !.x = "XC", !.c = "Meter"]}

\* What --retrymax and the other three are given.
RetryMaxArgs == {Absent, "0", "3", "abc", Blank, FlagAlone}
RetryBaseArgs == {Absent, "2", "abc"}
RetryRandMinArgs == {Absent, "0", "1"}
RetryRandMaxArgs == {Absent, "5", FlagAlone}

InitOverrides ==
    /\ \E base \in BaseCommandLines, a \in RetryMaxArgs, b \in RetryBaseArgs,
          c \in RetryRandMinArgs, d \in RetryRandMaxArgs :
        args = [base EXCEPT !.retrymax = a, !.retrybase = b,
                            !.retryrandmin = c, !.retryrandmax = d]
    /\ pc = "start"
    /\ out = <<>>
    /\ loginCookie = ""
    /\ cabinets = <<>>
    /\ documents = <<>>
    /\ dlIndex = 0
    /\ files = <<>>
    /\ settled = 0
    /\ SessionInit
    /\ RetryDefaults
    /\ RequestIdle
    /\ PagingLocalsInit
    /\ srvPageSizes = {0, 2}
    /\ QueryIdle
    /\ CookieIdle
    /\ AuthIdle

SpecOverrides == InitOverrides /\ [][Next]_vars

(***************************************************************************)
(* Claims about the retry wrapper (checked under SpecRequest)              *)
(***************************************************************************)

\* The responses so far are all answers with a status other than 200.
AllNon200(log) == \A j \in 1..Len(log) : log[j].status # 0 /\ log[j].status # 200
\* The number of answers with a status other than 200.
CountNon200(log) == Cardinality({j \in 1..Len(log) : log[j].status # 0 /\ log[j].status # 200})

\* C1: with maxAttempts = N >= 1, after k < N consecutive non-200 answers the
\* (k+1)-th request is issued once the delay is over, and when it is answered
\* with 200 the call has returned the body of that answer, having issued
\* exactly k+1 requests; the call is over, so none follows.
C1_RetryThenSuccess ==
    \A k \in 0..(retryMaxCount - 1) :
        /\ (/\ reqPc \notin {"idle", "delay"}
            /\ Len(reqLog) = k
            /\ AllNon200(reqLog))
           => (reqPc = "axios" /\ reqSent = k + 1)
        /\ (/\ Len(reqLog) = k + 1
            /\ AllNon200(SubSeq(reqLog, 1, k))
            /\ reqLog[k + 1].status = 200)
           => /\ reqPc = "done"
              /\ reqResult = Data(reqLog[k + 1].data)
              /\ reqSent = k + 1

\* C1 witness: three non-200 answers, then a 200 whose body was returned.
C1_Witness ==
    /\ Len(reqLog) = 4
    /\ AllNon200(SubSeq(reqLog, 1, 3))
    /\ reqLog[4].status = 200
    /\ reqResult = Data(reqLog[4].data)

\* C2: when every request is answered with a non-200 status the call issues
\* exactly N = maxAttempts requests and then returns a no-result value
\* (undefined from getRequest, null from postRequest); no call ever issues
\* more than N requests.
C2_ExhaustedReturnsNoResult ==
    /\ reqSent <= retryMaxCount
    /\ (/\ AllNon200(reqLog)
        /\ Len(reqLog) = retryMaxCount
        /\ reqPc # "delay")
       => /\ reqPc = "done"
          /\ reqSent = retryMaxCount
          /\ reqResult = (IF reqMethod = "get" THEN Undefined ELSE Null)
    /\ (reqPc = "done" /\ AllNon200(reqLog))
       => (Len(reqLog) = retryMaxCount /\ reqResult.kind \in {"undefined", "null"})

\* C2 witness: getRequest gave up after N >= 2 non-200 answers.
C2_Witness ==
    /\ reqPc = "done"
    /\ reqMethod = "get"
    /\ retryMaxCount >= 2
    /\ AllNon200(reqLog)
    /\ Len(reqLog) = retryMaxCount
    /\ reqResult = Undefined

\* C3: when an attempt raises a transport-level exception the call has
\* logged it and returned null at once: no delay follows the exception
\* (every delay taken follows an earlier non-200 answer) and no request
\* follows it, however many attempts remain.
C3_ExceptionReturnsNull ==
    (Len(reqLog) > 0 /\ reqLog[Len(reqLog)].status = 0)
    => /\ reqPc = "done"
       /\ reqResult = Null
       /\ out = <<ExceptionLine>>
       /\ reqSent = Len(reqLog)
       /\ reqDelays = Len(reqLog) - 1
       /\ AllNon200(SubSeq(reqLog, 1, Len(reqLog) - 1))

\* C3 witness: an exception after an earlier non-200 retry, attempts remaining.
C3_Witness ==
    /\ Len(reqLog) = 2
    /\ reqLog[2].status = 0
    /\ retryMaxCount > 2
    /\ reqPc = "done"
    /\ out = <<ExceptionLine>>

\* C4: a body is returned only for an answer whose status is exactly 200 (and
\* it is that answer's body); every answer with another status, 201 and 204
\* included, is followed by one backoff delay and, while attempts remain, by
\* the next request.
C4_Only200Returned ==
    /\ (reqResult.kind = "data")
       => /\ Len(reqLog) > 0
          /\ reqLog[Len(reqLog)].status = 200
          /\ reqResult.data = reqLog[Len(reqLog)].data
    /\ reqDelays = CountNon200(reqLog)
    /\ \A j \in 1..Len(reqLog) :
        (reqLog[j].status \notin {0, 200}) =>
            /\ (reqPc = "done" /\ Len(reqLog) = j) => reqResult.kind # "data"
            /\ (j < retryMaxCount /\ ~(reqPc = "delay" /\ Len(reqLog) = j))
               => reqSent >= j + 1

\* C4 witness: a 201 and a 204 were answered and retried; a later 200 was returned.
C4_Witness ==
    /\ Len(reqLog) = 3
    /\ reqLog[1].status = 201
    /\ reqLog[2].status = 204
    /\ reqLog[3].status = 200
    /\ reqResult.kind = "data"

(***************************************************************************)
(* Claims about the paginated listing (checked under SpecPaging)           *)
(***************************************************************************)

\* The rows received so far, over all pages, in order, each with the layout
\* of the page that carried it.
RECURSIVE RowsReceived(_)
RowsReceived(pages) ==
    IF pages = <<>> THEN <<>>
    ELSE LET last == pages[Len(pages)]
         IN  RowsReceived(SubSeq(pages, 1, Len(pages) - 1)) \o
             [j \in 1..Len(last.Rows) |-> [hdr |-> last.Headers, items |-> last.Rows[j].Items]]

\* What the forEach leaves of a received row, said position by position.
\* NullAt is the first position that makes the prototype null (a column
\* called __proto__ holding null), 0 when there is none: up to there a
\* column called __proto__ stores nothing and sets the prototype when it
\* holds an object; after it __proto__ is a name like any other.
NameAt(r, k) == HeaderAt(r.hdr, k)
NullAt(r) ==
    LET nulls == {k \in 1..Len(r.items) : NameAt(r, k) = "__proto__" /\ r.items[k] = NullItem}
    IN  IF nulls = {} THEN 0 ELSE CHOOSE k \in nulls : \A k2 \in nulls : k <= k2
Stores(r, k) == NameAt(r, k) # "__proto__" \/ (NullAt(r) # 0 /\ k > NullAt(r))

\* The names under which a received row stores an item.
ColumnNames(r) == {NameAt(r, k) : k \in {k2 \in 1..Len(r.items) : Stores(r, k2)}}

\* The prototype of the row: null once a position has made it so, else the
\* object of the last __proto__ column that holds one, else Object.prototype.
RowPrototype(r) ==
    LET objects == {k \in 1..Len(r.items) :
                        NameAt(r, k) = "__proto__" /\ r.items[k] \in ObjectItems}
    IN  IF NullAt(r) # 0 THEN NullItem
        ELSE IF objects = {} THEN ObjectPrototype
        ELSE r.items[CHOOSE k \in objects : \A k2 \in objects : k2 <= k]

\* fieldsMap[name] for a received row: the item of the last position that
\* stores one under that name; where the row stores none, what it inherits
\* from its prototype, or undefined.
ColumnOf(r, name) ==
    IF name \in ColumnNames(r)
    THEN r.items[CHOOSE k \in 1..Len(r.items) :
                    /\ Stores(r, k) /\ NameAt(r, k) = name
                    /\ \A later \in (k + 1)..Len(r.items) :
                            ~(Stores(r, later) /\ NameAt(r, later) = name)]
    ELSE ReadProperty([n \in {} |-> ""], RowPrototype(r), name)

\* The record a received row stands for: one key per name that stores an item.
RecordOf(r, cab) ==
    [id |-> ColumnOf(r, "DWDOCID"),
     cabinetId |-> cab,
     row |-> [name \in ColumnNames(r) |-> ColumnOf(r, name)],
     rowProto |-> RowPrototype(r)]

\* The elements of a sequence are pairwise different.
Distinct(seq) == Cardinality({seq[j] : j \in 1..Len(seq)}) = Len(seq)

\* C8: the listing requests the windows start = 0, 1000, 2000, ... with
\* count 1000, one after each non-empty page; it ends at the first page with
\* an empty row set; the documents are the translated records of the rows
\* received, one per row and in order (so 1000, 1000, 0 rows give 2000
\* records), and their ids are pairwise different when the document ids of
\* the rows received are.
C8_Pagination ==
    LET rows == RowsReceived(pgReceived)
    IN  /\ \A j \in 1..Len(http) :
            /\ http[j].op = "Documents"
            /\ http[j].cab = pgCabinet
            /\ http[j].start = 1000 * (j - 1)
            /\ http[j].count = 1000
        /\ pgPc = "page" => Len(http) = Len(pgReceived) + 1
        /\ pgPc = "done" => Len(http) = Len(pgReceived)
        /\ \A j \in 1..Len(pgReceived) :
            (Len(pgReceived[j].Rows) = 0) <=> (j = Len(pgReceived) /\ pgPc = "done")
        /\ Len(pgDocuments) = Len(rows)
        /\ \A n \in 1..Len(rows) : pgDocuments[n] = RecordOf(rows[n], pgCabinet)
        /\ Distinct([n \in 1..Len(rows) |-> ColumnOf(rows[n], "DWDOCID")])
           => Distinct([n \in 1..Len(pgDocuments) |-> pgDocuments[n].id])

\* C8 witness: the server answered 1000, 1000 and 0 rows in disjoint windows;
\* the listing is over with 2000 records and no id twice.
C8_Witness ==
    /\ pgPc = "done"
    /\ Len(pgReceived) = 3
    /\ Len(pgReceived[1].Rows) = 1000
    /\ Len(pgReceived[2].Rows) = 1000
    /\ Len(pgReceived[3].Rows) = 0
    /\ Len(http) = 3
    /\ Len(pgDocuments) = 2000
    /\ Distinct([n \in 1..Len(pgDocuments) |-> pgDocuments[n].id])

(***************************************************************************)
(* Claims about the query-expression parser (checked under SpecQuery)      *)
(***************************************************************************)

\* The body the claim describes for a query written from conds.
ClaimedBody(conds) ==
    [kind |-> "body",
     Condition |-> [k \in 1..Len(conds) |-> [DBName |-> conds[k].field, Value |-> <<conds[k].value>>]],
     Operation |-> "Or"]

\* C9: for a query string of n >= 1 conditions FIELD = [VALUE] separated by
\* '|', the body posted has exactly n terms in the same order, the i-th being
\* {DBName: the i-th field name, Value: [the text between the brackets]},
\* with Operation 'Or', whatever the white space around '='.
C9_QueryParser ==
    jsonBody # NotRun => jsonBody = ClaimedBody(queryConds)

\* The part of C9 the parser does keep: when no value holds '=' or '|'.
C9_PlainValues ==
    (/\ jsonBody # NotRun
     /\ \A k \in 1..Len(queryConds) :
            IndexOf(queryConds[k].value, "=", 1) = 0 /\ IndexOf(queryConds[k].value, "|", 1) = 0)
    => jsonBody = ClaimedBody(queryConds)

(***************************************************************************)
(* Claims about formatCookie (checked under SpecCookie)                    *)
(***************************************************************************)

\* The name=value pair of a Set-Cookie entry: its text before the first ';'.
PairOf(entry) ==
    LET semi == IndexOf(entry, ";", 1)
    IN  IF semi = 0 THEN entry ELSE SubSeq(entry, 1, semi - 1)

\* The name of a Set-Cookie entry: its text before the first '='.
NameOf(entry) == SubSeq(entry, 1, IndexOf(entry, "=", 1) - 1)

\* A sequence with every element kept where it first occurs.
RECURSIVE FirstOccurrences(_)
FirstOccurrences(seq) ==
    IF Len(seq) = 0 THEN <<>>
    ELSE LET front == FirstOccurrences(SubSeq(seq, 1, Len(seq) - 1))
             x == seq[Len(seq)]
         IN  IF \E k \in 1..Len(front) : front[k] = x THEN front ELSE Append(front, x)

\* The pairs of the entries, each once, in the order in which the names
\* were first seen.
RECURSIVE PairsByName(_, _)
PairsByName(names, entries) ==
    IF Len(names) = 0 THEN <<>>
    ELSE LET mine == SelectSeq(entries, LAMBDA e : NameOf(e) = names[1])
         IN  FirstOccurrences([k \in 1..Len(mine) |-> PairOf(mine[k])])
             \o PairsByName(Tail(names), entries)
ClaimedPairs(entries) ==
    PairsByName(FirstOccurrences([k \in 1..Len(entries) |-> NameOf(entries[k])]), entries)

\* C10: for any list of Set-Cookie entries the string returned holds each
\* cookie's name=value pair exactly once, in the order in which the names
\* were first seen, joined by '; ', with no separator before or after.
C10_FormatCookie ==
    formattedCookieStr # NotRun
    => formattedCookieStr.str = Join(ClaimedPairs(cookieStr), <<";", " ">>)

\* The part of C10 formatCookie does keep: every entry is followed by ';',
\* no name comes twice, no name is a number and none is __proto__.
C10_WellFormedEntries ==
    (/\ formattedCookieStr # NotRun
     /\ \A k \in 1..Len(cookieStr) :
            /\ IndexOf(cookieStr[k], ";", 1) # 0
            /\ ~IsArrayIndex(NameOf(cookieStr[k]))
            /\ NameOf(cookieStr[k]) # ProtoKey
            /\ \A k2 \in 1..Len(cookieStr) : k2 # k => NameOf(cookieStr[k2]) # NameOf(cookieStr[k]))
    => formattedCookieStr.str = Join(ClaimedPairs(cookieStr), <<";", " ">>)

(***************************************************************************)
(* Claims about the dispatcher's input checks (Spec)                       *)
(***************************************************************************)
GenModes == {"gentoken", "gencookie"}

HasLine(text) == \E k \in 1..Len(out) : out[k] = Line(text)
Requested(op) == \E k \in 1..Len(http) : http[k].op = op

\* C5: run in a mode other than gentoken/gencookie with both a token and a
\* cookie, the dispatcher prints a warning, makes the supplied cookie the
\* session cookie, performs no token logon, and goes on to the cabinet
\* listing: the run does not halt at the check.
C5_BothGivenContinues ==
    (/\ pc # "start"
     /\ Truthy(args.m) /\ args.m \notin GenModes /\ Truthy(args.e)
     /\ Truthy(args.t) /\ Truthy(args.x))
    => /\ HasLine("both cookie and token were provided... using existing cookie.")
       /\ cookie = args.x
       /\ ~Requested("TokenLogOn")
       /\ Requested("FileCabinets")

\* A required input of the start of execute is missing.
MissingRequiredInput ==
    \/ ~Truthy(args.m)
    \/ ~Truthy(args.e)
    \/ args.m \in GenModes /\ (~Truthy(args.u) \/ ~Truthy(args.p) \/ ~Truthy(args.h))
    \/ args.m \notin GenModes /\ ~Truthy(args.t) /\ ~Truthy(args.x)

\* C6: with the mode missing, the endpoint missing, a credential of
\* gentoken/gencookie missing, or (in any other mode) neither token nor
\* cookie given, the run halts at its first step and no HTTP request is
\* ever issued.
C6_MissingInputNoRequest ==
    MissingRequiredInput =>
        /\ http = <<>>
        /\ pc \in {"start", "returned"}
        /\ pc = "returned" => Len(out) = 1

C6_Witness ==
    /\ pc = "returned"
    /\ args.m = "gentoken" /\ Truthy(args.e) /\ Truthy(args.u) /\ Truthy(args.p)
    /\ ~Truthy(args.h)
    /\ out = <<Line("-h hostname not defined.")>>
    /\ http = <<>>

\* C7: in update mode, once two or more documents are resolved the run has
\* halted and no request to the field-update endpoint was issued, whatever
\* the update JSON argument is (absent, invalid, valid); with a valid one the
\* halt is the single-target guard's.
C7_UpdateSingleTarget ==
    (args.m = "update" /\ Len(documents) >= 2)
    => /\ pc = "returned"
       /\ ~Requested("Fields")
       /\ ParsesAsJson(args.u) =>
            out[Len(out)] = Line("Multiple matching documents found, tighten the fitler function.")

C7_Witness ==
    /\ args.m = "update"
    /\ Len(documents) >= 2
    /\ ParsesAsJson(args.u)
    /\ pc = "returned"
    /\ ~Requested("Fields")

(***************************************************************************)
(* Claims about the dispatcher's runs (Spec)                               *)
(***************************************************************************)
\* The JSON arrays printed so far, in order.
JsonLines == SelectSeq(out, LAMBDA line : line.text = "JSON")

\* Exactly one of token and cookie is given.
OneCredential == Truthy(args.t) # Truthy(args.x)

\* The body getDocumentsWithQuery posts for SERIAL_NO = [X].
SerialXBody ==
    [kind |-> "body",
     Condition |-> <<[DBName |-> <<"S", "E", "R", "I", "A", "L", "_", "N", "O">>,
                      Value |-> <<(<<"X">>)>>]>>,
     Operation |-> "Or"]

\* C11: a get run with one credential and the query SERIAL_NO = [X], to which
\* the server answered throughout and returned the one document of the
\* cabinet whose SERIAL_NO is X, has posted that condition and ends by
\* printing one JSON array of one record whose row.SERIAL_NO is X.
C11_GetByQueryEndToEnd ==
    (/\ args.m = "get" /\ Truthy(args.e) /\ OneCredential
     /\ ~Truthy(args.i) /\ args.q = "SERIAL_NO = [X]"
     /\ reqResult.kind = "data"
     /\ reqResult.data.Count.Value = 1
     /\ reqResult.data.Items[1] = QueryItem(1))
    => /\ pc = "returned"
       /\ jsonBody = SerialXBody
       /\ Len(JsonLines) = 1
       /\ out[Len(out)] = JsonLines[1]
       /\ Len(JsonLines[1].docs) = 1
       /\ JsonLines[1].docs[1].row["SERIAL_NO"] = "X"
       /\ JsonLines[1].docs[1].id = "1"

C11_Witness ==
    /\ args.m = "get" /\ OneCredential /\ args.q = "SERIAL_NO = [X]" /\ ~Truthy(args.i)
    /\ reqResult.kind = "data"
    /\ reqResult.data.Count.Value = 1
    /\ reqResult.data.Items[1] = QueryItem(1)
    /\ pc = "returned"
    /\ Len(JsonLines) = 1
    /\ JsonLines[1].docs[1].row["SERIAL_NO"] = "X"

\* The requests issued and not yet completed.
Outstanding == Len(http) - settled

\* C12: in a dispatcher run at most one HTTP request is outstanding: when a
\* request is issued, every earlier request has completed; a request is
\* outstanding exactly while execute awaits one.
C12_OneRequestAtATime ==
    /\ Outstanding \in {0, 1}
    /\ Outstanding = 1 <=> pc \notin {"start", "FileClose", "returned", "crashed"}

C12_Witness ==
    /\ Len(http) >= 3
    /\ Outstanding = 1
    /\ http[Len(http)].op = "QueryFetch"

\* The same inside the retry wrapper: a request is outstanding exactly while
\* axios is awaited, none during a backoff delay, and the next attempt is
\* sent only after the delay has elapsed.
C12_WrapperOneAtATime ==
    /\ reqSent - Len(reqLog) \in {0, 1}
    /\ reqSent - Len(reqLog) = 1 <=> reqPc = "axios"
    /\ reqPc = "delay" => reqDelays = reqSent

\* The download requests issued so far, in order.
DownloadRequests == SelectSeq(http, LAMBDA request : request.op = "FileDownload")

\* C13: in download mode the k-th file created (k = 1 .. n) is named
\* <prefix>_<k-1>.pdf and holds the k-th resolved document, the names are
\* pairwise distinct, the download of a document is requested only when the
\* files of all documents before it are closed, and a run that completes has
\* created and closed one file per document.
C13_DownloadsInOrder ==
    args.m = "download" =>
        /\ \A k \in 1..Len(files) : files[k].name = args.n \o "_" \o ToString(k - 1) \o ".pdf"
        /\ \A k, k2 \in 1..Len(files) : k # k2 => files[k].name # files[k2].name
        /\ Len(DownloadRequests) <= Len(documents)
        /\ \A k \in 1..Len(DownloadRequests) :
            /\ DownloadRequests[k].doc = documents[k].id
            /\ DownloadRequests[k].cab = documents[k].cabinetId
            /\ \A k2 \in 1..(k - 1) : k2 <= Len(files) /\ files[k2].closed
        /\ Len(files) <= Len(DownloadRequests)
        /\ (pc = "returned" /\ Len(DownloadRequests) > 0) =>
            /\ Len(files) = Len(documents)
            /\ \A k \in 1..Len(files) : files[k].closed

C13_Witness ==
    /\ args.m = "download"
    /\ pc = "returned"
    /\ Len(documents) = 2
    /\ Len(files) = 2
    /\ files[1].closed /\ files[2].closed
    /\ files[1].name = "testdoc_0.pdf" /\ files[2].name = "testdoc_1.pdf"

(***************************************************************************)
(* Claims about authentication (Spec, modes gentoken and gencookie)        *)
(***************************************************************************)
\* generateToken has returned: execute of gentoken has printed the token, or
\* execute of gencookie stands in initAuthFromToken's request.
GenerateTokenReturned ==
    \/ args.m = "gentoken" /\ pc = "returned" /\ Len(http) > 0
    \/ args.m = "gencookie" /\ pc = "TokenLogOn"

\* C14: when generateToken has returned, it has sent the logon first and the
\* token request second, the second with the cookie of the logon; the token
\* is the one the server issued; GLOBALS.endpoint is the given endpoint and
\* GLOBALS.cookie the login cookie.
C14_GenerateToken ==
    GenerateTokenReturned =>
        /\ Len(http) >= 2
        /\ http[1].op = "Logon" /\ http[1].endpoint = args.e
        /\ http[2].op = "LoginToken" /\ http[2].endpoint = args.e
        /\ loginCookie = ServerLoginCookie
        /\ http[2].cookie = loginCookie
        /\ endpoint = args.e
        /\ cookie = loginCookie
        /\ args.m = "gentoken" => out = <<Line(ServerToken)>> /\ Len(http) = 2

C14_Witness ==
    /\ args.m = "gentoken"
    /\ pc = "returned"
    /\ out = <<Line(ServerToken)>>
    /\ cookie = ServerLoginCookie
    /\ http[2].cookie = ServerLoginCookie

\* The operations of the requests issued so far, in order.
HttpOps == [k \in 1..Len(http) |-> http[k].op]

\* initAuthFromToken has returned, called by execute with the token of -t
\* (execute has gone on to the cabinet list).
TokenExchanged ==
    /\ Truthy(args.m) /\ args.m \notin GenModes /\ Truthy(args.e)
    /\ Truthy(args.t) /\ ~Truthy(args.x)
    /\ Len(http) >= 2

\* C15: once initAuthFromToken has returned, GLOBALS.cookie is the cookie of
\* the token logon and the requests that follow carry it; a gencookie run
\* (initAuthFromCreds) that completes has issued logon, token request and
\* token logon in that order, and the cookie it prints and leaves in
\* GLOBALS.cookie is the cookie of the token logon, not the login cookie.
C15_TokenExchangeCookie ==
    /\ TokenExchanged =>
        /\ http[1].op = "TokenLogOn"
        /\ cookie = ServerTokenCookie
        /\ \A k \in 2..Len(http) : http[k].cookie = ServerTokenCookie
    /\ (args.m = "gencookie" /\ pc = "returned" /\ Len(http) > 0) =>
        /\ HttpOps = <<"Logon", "LoginToken", "TokenLogOn">>
        /\ cookie = ServerTokenCookie
        /\ cookie # loginCookie
        /\ out = <<Line(ServerTokenCookie)>>

C15_Witness ==
    /\ args.m = "gencookie"
    /\ pc = "returned"
    /\ HttpOps = <<"Logon", "LoginToken", "TokenLogOn">>
    /\ loginCookie = ServerLoginCookie
    /\ cookie = ServerTokenCookie
    /\ out = <<Line(ServerTokenCookie)>>

(***************************************************************************)
(* Claims about cabinet and document resolution (Spec)                     *)
(***************************************************************************)
\* The requests whose url names a cabinet, and all requests made after the
\* cabinet is resolved.
CabinetOps == {"Upload", "Document", "QueryLink", "Documents", "Fields", "FileDownload"}
DataOps == CabinetOps \cup {"QueryFetch"}

\* The positions in the fetched list of the cabinets named -c.
MatchPositions == {j \in 1..Len(cabinets) : cabinets[j].Name = args.c}
FirstMatchPosition == CHOOSE j \in MatchPositions : \A j2 \in MatchPositions : j <= j2

MultipleCabinetsWarning ==
    Line("WARNING: There are multiple cabinets with the name \"" \o args.c
         \o "\", using the first one.")

\* A run that has come to the cabinet lookup by name.
CabinetLookedUp ==
    /\ Truthy(args.m) /\ args.m \notin GenModes \cup {"lscabinets"}
    /\ Truthy(args.c)
    /\ Requested("FileCabinets")
    /\ pc \notin {"start", "TokenLogOn", "FileCabinets"}
    /\ ~(pc = "crashed" /\ http[Len(http)].op \in {"TokenLogOn", "FileCabinets"})

\* C16: after the lookup of the cabinet by name, every request that names a
\* cabinet names the first cabinet of the fetched list with that name; with
\* more than one match the warning is printed and the run does not end at
\* it; with no match the run halts with no request after the cabinet list.
C16_FirstMatchingCabinet ==
    CabinetLookedUp =>
        /\ MatchPositions # {} =>
            \A k \in 1..Len(http) :
                http[k].op \in CabinetOps => http[k].cab = cabinets[FirstMatchPosition].Id
        /\ Cardinality(MatchPositions) > 1 =>
            /\ \E k \in 1..Len(out) : out[k] = MultipleCabinetsWarning
            /\ ~(pc = "returned" /\ out[Len(out)] = MultipleCabinetsWarning)
        /\ Cardinality(MatchPositions) = 1 =>
            ~\E k \in 1..Len(out) : out[k] = MultipleCabinetsWarning
        /\ MatchPositions = {} =>
            /\ pc = "returned"
            /\ http[Len(http)].op = "FileCabinets"
            /\ ~\E k \in 1..Len(http) : http[k].op \in DataOps
            /\ out = <<Line("No matching cabinet(s) for \"" \o args.c \o "\".")>>

C16_Witness ==
    /\ CabinetLookedUp
    /\ Cardinality(MatchPositions) = 2
    /\ cabinets[1].Id = "cab2"
    /\ \E k \in 1..Len(out) : out[k] = MultipleCabinetsWarning
    /\ \E k \in 1..Len(http) : http[k].op = "FileDownload" /\ http[k].cab = "cab2"

\* The other case of C16: the lookup finds no cabinet in a non-empty list.
C16_NoMatchWitness ==
    CabinetLookedUp /\ MatchPositions = {} /\ Len(cabinets) > 0 /\ pc = "returned"

\* A run that has come to document resolution.
ResolutionReached ==
    CabinetLookedUp /\ MatchPositions # {} /\ args.m # "upload"

\* The retrieval requests made so far, by kind.
RetrievalOps == {http[k].op : k \in 1..Len(http)} \cap {"Document", "QueryLink", "QueryFetch", "Documents"}

\* C17: a run that has come to document resolution retrieves by id when -i is
\* given; else by query when -q is given; else by predicate when -f is given
\* (the listing, filtered); else, in a mode other than update, the whole
\* listing; else (update with none of the three) it halts with no document
\* request.  No run uses two of the paths.
C17_OneRetrievalPath ==
    ResolutionReached =>
        IF Truthy(args.i)
        THEN /\ RetrievalOps = {"Document"}
             /\ Cardinality({k \in 1..Len(http) : http[k].op = "Document"}) = 1
             /\ \A k \in 1..Len(http) : http[k].op = "Document" => http[k].doc = args.i
        ELSE IF Truthy(args.q)
        THEN /\ "QueryLink" \in RetrievalOps
             /\ RetrievalOps \subseteq {"QueryLink", "QueryFetch"}
        ELSE IF Truthy(args.f)
        THEN /\ RetrievalOps = {"Documents"}
             /\ pgPc = "done" =>
                    documents = SelectSeq(pgDocuments, LAMBDA d : d.row["SERIAL_NO"] = "X")
        ELSE IF args.m # "update"
        THEN /\ RetrievalOps = {"Documents"}
             /\ pgPc = "done" => documents = pgDocuments
        ELSE /\ RetrievalOps = {}
             /\ pc = "returned"
             /\ ~\E k \in 1..Len(http) : http[k].op \in DataOps
             /\ out[Len(out)] = Line("None of -f -q -i defined.")

C17_Witness ==
    /\ ResolutionReached
    /\ Truthy(args.i) /\ Truthy(args.q) /\ Truthy(args.f)
    /\ RetrievalOps = {"Document"}
    /\ pc = "returned"
    /\ Len(documents) = 1

\* Other cases of C17: the predicate path drops a listed document; update
\* with none of -i, -q, -f halts.
C17_PredicateWitness ==
    /\ ResolutionReached /\ ~Truthy(args.i) /\ ~Truthy(args.q) /\ Truthy(args.f)
    /\ pgPc = "done" /\ Len(pgDocuments) = 2 /\ Len(documents) = 1
    /\ documents[1].row["SERIAL_NO"] = "X"
C17_UpdateNoneWitness ==
    /\ ResolutionReached /\ args.m = "update"
    /\ ~Truthy(args.i) /\ ~Truthy(args.q) /\ ~Truthy(args.f)
    /\ pc = "returned"

\* Document resolution has completed.
ResolutionCompleted == HasLine("Completed document fetching.")

\* C18: in get mode, once document resolution has completed, whatever the
\* resolved set is (the empty set included), exactly one JSON array has been
\* printed and it holds the resolved documents.
C18_GetPrintsOneArray ==
    (args.m = "get" /\ ResolutionCompleted) =>
        /\ Len(JsonLines) = 1
        /\ JsonLines[1] = JsonLine(documents)

\* The same for the non-empty sets only.
C18_NonEmptySets ==
    (args.m = "get" /\ ResolutionCompleted /\ Len(documents) > 0) =>
        /\ Len(JsonLines) = 1
        /\ JsonLines[1] = JsonLine(documents)
        /\ pc = "returned"

\* With the empty set get mode prints a text line and no array.
C18_EmptySetPrintsText ==
    (args.m = "get" /\ ResolutionCompleted /\ Len(documents) = 0) =>
        /\ Len(JsonLines) = 0
        /\ out[Len(out)] = Line("No matching documents found.")
        /\ pc = "returned"

(***************************************************************************)
(* Claims about the terminal branches (Spec)                               *)
(***************************************************************************)
\* s is an initial part of t.
IsPrefix(s, t) == Len(s) <= Len(t) /\ \A k \in 1..Len(s) : s[k] = t[k]

\* The requests of a complete gentoken / gencookie run.
GenRequests ==
    IF args.m = "gentoken" THEN <<"Logon", "LoginToken">>
    ELSE <<"Logon", "LoginToken", "TokenLogOn">>

\* C19: a gentoken or gencookie run with endpoint, username, password and
\* host id given starts authenticating whether or not a token or a cookie
\* is given, issues only the authentication requests of its mode, in order,
\* and a run that completes has issued all of them and printed the token
\* (gentoken) or the session cookie (gencookie) and nothing else.
C19_GenModesTerminal ==
    (/\ args.m \in GenModes /\ Truthy(args.e)
     /\ Truthy(args.u) /\ Truthy(args.p) /\ Truthy(args.h)
     /\ pc # "start")
    => /\ Len(http) >= 1
       /\ IsPrefix(HttpOps, GenRequests)
       /\ pc \in {"Logon", "LoginToken", "TokenLogOn", "returned", "crashed"}
       /\ cabinets = <<>>
       /\ pc = "returned" =>
            /\ HttpOps = GenRequests
            /\ out = <<Line(IF args.m = "gentoken" THEN ServerToken ELSE cookie)>>
            /\ args.m = "gencookie" => cookie = ServerTokenCookie
       /\ pc # "returned" => out = <<>>

C19_Witness ==
    /\ args.m = "gentoken"
    /\ ~Truthy(args.t) /\ ~Truthy(args.x) /\ ~Truthy(args.c)
    /\ pc = "returned"
    /\ HttpOps = <<"Logon", "LoginToken">>
    /\ out = <<Line(ServerToken)>>

\* The gencookie case of C19.
C19_CookieWitness ==
    /\ args.m = "gencookie"
    /\ ~Truthy(args.t) /\ ~Truthy(args.x)
    /\ pc = "returned"
    /\ HttpOps = <<"Logon", "LoginToken", "TokenLogOn">>

\* C20: an lscabinets run asks for no cabinet name and issues no document,
\* upload, update or download request; after the authentication (the token
\* logon when a token is given) it fetches the cabinet list, and a run that
\* completes has printed one line "Name: Id" per cabinet, in list order, and
\* nothing else (a run that does not complete has printed nothing but the
\* exception the wrapper caught).
C20_ListCabinetsTerminal ==
    (args.m = "lscabinets" /\ Truthy(args.e) /\ OneCredential /\ pc # "start")
    => /\ IsPrefix(HttpOps, IF Truthy(args.t) THEN <<"TokenLogOn", "FileCabinets">>
                            ELSE <<"FileCabinets">>)
       /\ Len(http) >= 1
       /\ ~HasLine("-c cabinet name not defined.")
       /\ pc \in {"TokenLogOn", "FileCabinets", "returned", "crashed"}
       /\ pc = "returned" =>
            /\ http[Len(http)].op = "FileCabinets"
            /\ Len(out) = Len(cabinets)
            /\ \A k \in 1..Len(cabinets) :
                out[k] = Line(cabinets[k].Name \o ": " \o cabinets[k].Id)
       /\ pc # "returned" => out = WrapperLog

C20_Witness ==
    /\ args.m = "lscabinets"
    /\ ~Truthy(args.c)
    /\ Truthy(args.t)
    /\ pc = "returned"
    /\ HttpOps = <<"TokenLogOn", "FileCabinets">>
    /\ Len(cabinets) = 2
    /\ out = <<Line(cabinets[1].Name \o ": " \o cabinets[1].Id),
               Line(cabinets[2].Name \o ": " \o cabinets[2].Id)>>

(***************************************************************************)
(* Claims about the helpers, seen in dispatcher runs (Spec)                *)
(***************************************************************************)
\* execute has called getDocumentsWithFunction.
PredicatePath ==
    ResolutionReached /\ ~Truthy(args.i) /\ ~Truthy(args.q) /\ Truthy(args.f)

\* The positions of the listed documents whose SERIAL_NO is X, in order.
RECURSIVE KeepSerialX(_)
KeepSerialX(docs) ==
    IF docs = <<>> THEN <<>>
    ELSE LET rest == KeepSerialX(SubSeq(docs, 1, Len(docs) - 1))
             last == docs[Len(docs)]
         IN  IF last.row["SERIAL_NO"] = "X" THEN Append(rest, last) ELSE rest

\* C21: on the predicate path nothing is kept before the listing is over
\* (its last page is the empty one); then the documents are exactly the
\* listed ones whose field map satisfies the predicate, in listed order; the
\* only retrieval requests are the page requests of the listing.
C21_PredicateAfterWholeListing ==
    PredicatePath =>
        /\ RetrievalOps = {"Documents"}
        /\ pgPc # "done" => documents = <<>> /\ ~ResolutionCompleted
        /\ pgPc = "done" =>
            /\ Len(pgReceived[Len(pgReceived)].Rows) = 0
            /\ Len(SelectSeq(http, LAMBDA r : r.op = "Documents")) = Len(pgReceived)
            /\ documents = KeepSerialX(pgDocuments)
            /\ ResolutionCompleted

C21_Witness ==
    /\ PredicatePath
    /\ pgPc = "done"
    /\ Len(pgReceived) = 3
    /\ Len(pgDocuments) = 4
    /\ Len(documents) = 2
    /\ documents[1] = pgDocuments[1] /\ documents[2] = pgDocuments[3]

\* The update requests issued so far.
FieldsRequests == SelectSeq(http, LAMBDA r : r.op = "Fields")

\* C22: in update mode with documents resolved, a missing update argument
\* and one that is not JSON each end the run with their message and without
\* an update request; over a run at most one update request is issued, and
\* only with an argument that parsed and exactly one resolved document, to
\* which it is addressed.
C22_UpdateArgument ==
    args.m = "update" =>
        /\ Len(FieldsRequests) <= 1
        /\ Len(FieldsRequests) = 1 =>
            /\ args.u = "{'SERIAL_NO': 'Z'}"
            /\ Len(documents) = 1
            /\ FieldsRequests[1].doc = documents[1].id
            /\ FieldsRequests[1].cab = documents[1].cabinetId
        /\ (ResolutionCompleted /\ Len(documents) > 0 /\ args.u = Absent) =>
            /\ pc = "returned"
            /\ out[Len(out)] = Line("-u update json not defined.")
        /\ (ResolutionCompleted /\ Len(documents) > 0 /\ args.u = "{bad") =>
            /\ pc = "returned"
            /\ out[Len(out)] = Line("-u is not valid json (remember to use single quotes).")

C22_Witness ==
    /\ args.m = "update"
    /\ Len(FieldsRequests) = 1
    /\ pc = "returned"
    /\ out[Len(out)] = Line("Completed document update...")

\* The other cases of C22: the argument is not JSON; it is missing.
C22_InvalidWitness ==
    /\ args.m = "update" /\ args.u = "{bad" /\ Len(documents) = 1
    /\ pc = "returned"
    /\ out[Len(out)] = Line("-u is not valid json (remember to use single quotes).")
C22_MissingWitness ==
    /\ args.m = "update" /\ args.u = Absent /\ Len(documents) = 1
    /\ pc = "returned"
    /\ out[Len(out)] = Line("-u update json not defined.")

\* getRequest(queryLink) has returned fetchedDocuments.
QueryAnswered == reqResult.kind = "data"

\* C23: when the fetched result reports the count 0 (its item list is
\* empty), getDocumentsWithQuery returns the empty list and raises nothing:
\* the run goes on to "No matching documents found."; with a non-zero count
\* the field names are those of the first item and one document per item is
\* returned.
C23_ZeroCountShortCircuit ==
    QueryAnswered =>
        /\ reqResult.data.Count.Value = 0 =>
            /\ Len(reqResult.data.Items) = 0
            /\ pc = "returned"
            /\ documents = <<>>
            /\ out[Len(out)] = Line("No matching documents found.")
        /\ reqResult.data.Count.Value # 0 =>
            /\ pc # "crashed" \/ http[Len(http)].op # "QueryFetch"
            /\ Len(documents) = Len(reqResult.data.Items)
            /\ \A j \in 1..Len(documents) :
                DOMAIN documents[j].row =
                    {reqResult.data.Items[1].Fields[k].FieldName :
                        k \in 1..Len(reqResult.data.Items[1].Fields)}

C23_Witness ==
    /\ QueryAnswered
    /\ reqResult.data.Count.Value = 0
    /\ reqResult.data.Items = <<>>
    /\ pc = "returned"
    /\ documents = <<>>

\* The requests getDocumentsWithQuery has issued, in order.
QueryRequests == SelectSeq(http, LAMBDA r : r.op \in {"QueryLink", "QueryFetch"})

\* C24: getDocumentsWithQuery posts the condition body to the expression-link
\* endpoint of the cabinet first; the link it then fetches is what the post
\* returned less exactly its first character, and the fetch is issued only
\* when the post has returned; a call that has returned has issued these two
\* requests and no other.
C24_QueryTwoRequests ==
    (ResolutionReached /\ ~Truthy(args.i) /\ Truthy(args.q)) =>
        /\ IsPrefix([k \in 1..Len(QueryRequests) |-> QueryRequests[k].op],
                    <<"QueryLink", "QueryFetch">>)
        /\ Len(QueryRequests) >= 1
        /\ QueryRequests[1].cab = cabinets[FirstMatchPosition].Id
        /\ jsonBody.kind = "body"
        /\ pc = "QueryLink" => Len(QueryRequests) = 1 /\ queryRes = <<>> /\ queryLink = <<>>
        /\ Len(QueryRequests) = 2 =>
            /\ queryRes \in ServerQueryLinks
            /\ Len(queryLink) = Len(queryRes) - 1
            /\ \A k \in 1..Len(queryLink) : queryLink[k] = queryRes[k + 1]
        /\ QueryAnswered => Len(QueryRequests) = 2

C24_Witness ==
    /\ ResolutionReached /\ ~Truthy(args.i) /\ Truthy(args.q)
    /\ QueryAnswered
    /\ Len(QueryRequests) = 2
    /\ queryRes = <<"/", "/", "q", "2">>
    /\ queryLink = <<"/", "q", "2">>

(***************************************************************************)
(* Claims about the backoff delays (SpecRequest)                           *)
(***************************************************************************)
\* C25: with integer settings and retryDelayRandomMax > retryDelayRandomMin,
\* every delay d the wrapper takes is a whole number of seconds with
\* base <= d <= base + (max - min) - 1; the minimum is not added to it (with
\* the defaults 10/10/20, 10 <= d <= 19).
C25_DelayRange ==
    (reqPc = "delay" /\ retryDelayRandomMaxInSeconds > retryDelayRandomMinInSeconds) =>
        /\ reqDelaySeconds \in Int
        /\ retryDelayBaseInSeconds <= reqDelaySeconds
        /\ reqDelaySeconds <= retryDelayBaseInSeconds
                + (retryDelayRandomMaxInSeconds - retryDelayRandomMinInSeconds) - 1
        /\ (/\ retryDelayBaseInSeconds = 10
            /\ retryDelayRandomMinInSeconds = 10
            /\ retryDelayRandomMaxInSeconds = 20) => reqDelaySeconds \in 10..19

C25_Witness ==
    /\ reqPc = "delay"
    /\ retryDelayBaseInSeconds = 10
    /\ retryDelayRandomMinInSeconds = 10
    /\ retryDelayRandomMaxInSeconds = 20
    /\ reqDelaySeconds = 19

\* The least delay of the defaults is taken as well.
C25_LeastWitness ==
    /\ reqPc = "delay"
    /\ retryDelayBaseInSeconds = 10 /\ retryDelayRandomMaxInSeconds = 20
    /\ reqDelaySeconds = 10

\* C26: the wrapper has started one delay for each non-200 answer and none
\* for a 200 or an exception: a delay is in progress only right after a
\* non-200 answer, the answer to the last permitted attempt included, so a
\* call that gave up after retryMaxCount non-200 answers has taken
\* retryMaxCount delays.
C26_OneDelayPerNon200 ==
    /\ reqDelays = CountNon200(reqLog)
    /\ reqPc = "delay" =>
        /\ Len(reqLog) > 0
        /\ reqLog[Len(reqLog)].status \notin {0, 200}
        /\ reqDelays = Len(reqLog)
    /\ (Len(reqLog) > 0 /\ reqLog[Len(reqLog)].status \in {0, 200}) =>
        /\ reqPc = "done"
        /\ reqDelays = Len(reqLog) - 1
    /\ (Len(reqLog) = retryMaxCount /\ AllNon200(reqLog)) =>
        /\ reqPc \in {"delay", "done"}
        /\ reqDelays = retryMaxCount
    /\ (reqPc = "done" /\ reqResult.kind = "undefined") => reqDelays = retryMaxCount

C26_Witness ==
    /\ reqPc = "done"
    /\ retryMaxCount = 3
    /\ Len(reqLog) = 3
    /\ AllNon200(reqLog)
    /\ reqDelays = 3
    /\ reqSent = 3

(***************************************************************************)
(* Claims about the listing (SpecPagingLayouts, SpecPaging)                *)
(***************************************************************************)
\* A row received, under the header row in use.
RowUnderHeaders(received) == [hdr |-> pgHeaders.names, items |-> received.items]

\* A row of a well-formed table: as many items as field names, no name
\* twice, none called __proto__.
WellFormedRow(r) ==
    /\ Len(r.items) = Len(r.hdr)
    /\ \A j, k \in 1..Len(r.hdr) : r.hdr[j] = r.hdr[k] => j = k
    /\ \A j \in 1..Len(r.hdr) : r.hdr[j] # "__proto__"

\* row['Items'][j - 1]: undefined past the end.
ItemAt(items, j) == IF j <= Len(items) THEN items[j] ELSE Absent

\* object a column called __proto__ held.
C27_DuplicateNameWitness ==
    /\ Len(pgDocuments) >= 1
    /\ pgHeaders.names = <<"DWDOCID", "SERIAL_NO", "SERIAL_NO">>
    /\ pgReceived[1].Rows[1].Items = <<"1", "X", "Y">>
    /\ pgDocuments[1].row = [DWDOCID |-> "1", SERIAL_NO |-> "Y"]
C27_InheritedIdWitness ==
    /\ Len(pgDocuments) >= 1
    /\ pgHeaders.names = <<"__proto__", "SERIAL_NO">>
    /\ pgDocuments[1].id = "9"
    /\ DOMAIN pgDocuments[1].row = {"SERIAL_NO"}
    /\ pgDocuments[1].rowProto = "{DWDOCID: '9'}"

(***************************************************************************)
(* Claims about the order of authentication and data requests (Spec)       *)
(***************************************************************************)
AuthOps == {"Logon", "LoginToken", "TokenLogOn"}
AllDataOps == DataOps \cup {"FileCabinets"}

\* C28: in a mode other than gentoken/gencookie every data request carries
\* the session cookie set before it: with a token (and no cookie) the run's
\* one authentication request is the token logon, it is the first request
\* and has completed before the first data request, which carries the cookie
\* it returned; with a cookie (and no token) no authentication request is
\* ever issued and the supplied cookie is stored and sent.
C28_AuthBeforeData ==
    (Truthy(args.m) /\ args.m \notin GenModes /\ Truthy(args.e) /\ pc # "start") =>
        /\ \A k \in 1..Len(http) :
            http[k].op \in AllDataOps => http[k].cookie = cookie /\ cookie # ""
        /\ (Truthy(args.t) /\ ~Truthy(args.x)) =>
            /\ Len(http) >= 1
            /\ http[1].op = "TokenLogOn"
            /\ \A k \in 2..Len(http) :
                http[k].op \in AllDataOps /\ http[k].cookie = ServerTokenCookie
            /\ Len(http) >= 2 => settled >= 1 /\ cookie = ServerTokenCookie
        /\ (Truthy(args.x) /\ ~Truthy(args.t)) =>
            /\ cookie = args.x
            /\ Len(http) >= 1
            /\ \A k \in 1..Len(http) :
                http[k].op \in AllDataOps /\ http[k].cookie = args.x

C28_Witness ==
    /\ args.m = "update"
    /\ Truthy(args.t) /\ ~Truthy(args.x)
    /\ HttpOps = <<"TokenLogOn", "FileCabinets", "Document", "Fields">>
    /\ \A k \in 2..4 : http[k].cookie = ServerTokenCookie

\* The cookie case of C28.
C28_CookieWitness ==
    /\ args.m = "get"
    /\ Truthy(args.x) /\ ~Truthy(args.t)
    /\ HttpOps = <<"FileCabinets", "QueryLink", "QueryFetch">>
    /\ \A k \in 1..3 : http[k].cookie = args.x

\* C29: the listing is over exactly when the page received last has no rows;
\* every page with rows, short of 1000 or not, is followed by a further page
\* request; so a listing that is over has received its p pages with rows and
\* one empty page in p + 1 page requests, and as long as no empty page arrives
\* the listing is not over.
C29_EndsOnlyOnEmptyPage ==
    /\ pgPc = "done" <=>
        (pgReceived # <<>> /\ Len(pgReceived[Len(pgReceived)].Rows) = 0)
    /\ \A j \in 1..Len(pgReceived) :
        Len(pgReceived[j].Rows) > 0 =>
            /\ Len(http) >= j + 1
            /\ http[j + 1].op = "Documents"
    /\ (\A j \in 1..Len(pgReceived) : Len(pgReceived[j].Rows) > 0) =>
        pgPc \in {"idle", "page", "crashed"}
    /\ pgPc = "done" =>
        /\ Len(http) = NonEmptyPages + 1
        /\ Len(pgReceived) = NonEmptyPages + 1

C29_Witness ==
    /\ pgPc = "done"
    /\ Len(pgReceived) = 3
    /\ Len(pgReceived[1].Rows) = 1
    /\ Len(pgReceived[2].Rows) = 2
    /\ Len(pgReceived[3].Rows) = 0
    /\ Len(http) = 3

(***************************************************************************)
(* Claims about the mode-specific input checks (Spec)                      *)
(***************************************************************************)
\* A mode-specific input is missing.
ModeInputMissing ==
    \/ args.m = "update" /\ ~Truthy(args.u)
    \/ args.m = "download" /\ (~Truthy(args.p) \/ ~Truthy(args.n))

\* The message of the first mode-specific check that fails.
ModeInputMessage ==
    IF args.m = "update" THEN Line("-u update json not defined.")
    ELSE IF ~Truthy(args.p) THEN Line("-p write folder path not specified.")
    ELSE Line("-n file name perfix not specified.")

\* One of the retrieval paths applies.
RetrievalChosen ==
    Truthy(args.i) \/ Truthy(args.q) \/ Truthy(args.f) \/ args.m # "update"

\* C30: a run in update or download mode that comes to document resolution
\* with a mode-specific input missing issues its retrieval requests all the
\* same; it prints none of the messages about that input before "Completed
\* document fetching."; it never issues an update or download request; and
\* when it returns, the fetch has completed and, with documents found, the
\* last line is the message about the missing input.
C30_ModeInputsAfterFetch ==
    (ModeInputMissing /\ ResolutionReached /\ RetrievalChosen) =>
        /\ RetrievalOps # {}
        /\ ~Requested("Fields") /\ ~Requested("FileDownload")
        /\ files = <<>>
        /\ HasLine(ModeInputMessage.text) => ResolutionCompleted
        /\ pc = "returned" =>
            /\ ResolutionCompleted
            /\ Len(documents) > 0 => out[Len(out)] = ModeInputMessage
            /\ Len(documents) = 0 => out[Len(out)] = Line("No matching documents found.")

C30_Witness ==
    /\ args.m = "download" /\ Truthy(args.p) /\ ~Truthy(args.n)
    /\ ResolutionReached
    /\ pc = "returned"
    /\ Len(documents) = 4
    /\ Len(SelectSeq(http, LAMBDA r : r.op = "Documents")) = 3
    /\ out[Len(out)] = Line("-n file name perfix not specified.")

\* The update case of C30.
C30_UpdateWitness ==
    /\ args.m = "update" /\ ~Truthy(args.u)
    /\ ResolutionReached
    /\ pc = "returned"
    /\ Len(documents) = 2
    /\ Requested("QueryFetch")
    /\ out[Len(out)] = Line("-u update json not defined.")

(***************************************************************************)
(* Claims about a mode that is none of the known ones (Spec)               *)
(***************************************************************************)
KnownModes == GenModes \cup {"lscabinets", "get", "update", "download", "upload"}
UnknownMode == Truthy(args.m) /\ args.m \notin KnownModes

UnsupportedLine ==
    Line("Mode \"" \o args.m \o "\" not supported, use one of upload/update/download.")

\* C31: a run whose mode is none of the known ones is not turned away for its
\* mode before the final dispatch: with a token or a cookie and the name of a
\* listed cabinet it has authenticated and listed the cabinets before it
\* resolves the documents (the whole listing when none of -i, -q, -f is
\* given); the line about the unsupported mode is printed after "Completed
\* document fetching." only, for a non-empty set only, and ends the run; no
\* request to the update, upload or download endpoint is ever issued.
C31_UnknownModeRejectedLast ==
    UnknownMode =>
        /\ ~Requested("Fields") /\ ~Requested("Upload") /\ ~Requested("FileDownload")
        /\ files = <<>>
        /\ ~HasLine("-m mode not defined.")
        /\ HasLine(UnsupportedLine.text) =>
            /\ pc = "returned"
            /\ out[Len(out)] = UnsupportedLine
            /\ out[Len(out) - 1] = Line("Completed document fetching.")
            /\ Len(documents) > 0
            /\ settled = Len(http)
        /\ ResolutionReached =>
            /\ OneCredential
            /\ IF Truthy(args.t)
               THEN /\ HttpOps[1] = "TokenLogOn" /\ HttpOps[2] = "FileCabinets"
                    /\ cookie = ServerTokenCookie
               ELSE HttpOps[1] = "FileCabinets" /\ cookie = args.x
            /\ RetrievalOps # {}
            /\ \A k \in 1..Len(http) :
                http[k].op \in RetrievalOps => k > (IF Truthy(args.t) THEN 2 ELSE 1)
            /\ (~Truthy(args.i) /\ ~Truthy(args.q) /\ ~Truthy(args.f)) =>
                /\ RetrievalOps = {"Documents"}
                /\ ResolutionCompleted => documents = pgDocuments
            /\ pc = "returned" =>
                /\ ResolutionCompleted
                /\ IF Len(documents) > 0
                   THEN out[Len(out)] = UnsupportedLine
                   ELSE /\ out[Len(out)] = Line("No matching documents found.")
                        /\ ~HasLine(UnsupportedLine.text)

\* C31 witness: the whole cabinet (two pages of two) listed after a token
\* logon, then the mode turned away.
C31_Witness ==
    /\ args.m = "bogus" /\ Truthy(args.t) /\ ~Truthy(args.x)
    /\ ~Truthy(args.i) /\ ~Truthy(args.q) /\ ~Truthy(args.f)
    /\ pc = "returned"
    /\ Len(documents) = 4
    /\ HttpOps = <<"TokenLogOn", "FileCabinets", "Documents", "Documents", "Documents">>
    /\ out[Len(out)] = UnsupportedLine

\* The empty case of C31: nothing is said about the mode.
C31_EmptySetWitness ==
    /\ args.m = "bogus" /\ Truthy(args.x)
    /\ ResolutionReached
    /\ pc = "returned"
    /\ Len(documents) = 0
    /\ out[Len(out)] = Line("No matching documents found.")

(***************************************************************************)
(* Claims about a request that comes back without a result (Spec)          *)
(***************************************************************************)
\* The wrapper returned undefined or null.
NoResult == reqResult.kind \in {"undefined", "null"}

\* C32: when the wrapper returns no result for the cabinet list or for a page
\* of the listing, the helper called ends in an exception (no cabinet list,
\* no document list, whole or partial, is handed to execute) and the run ends
\* in that exception: no request is issued after it, and the only line
\* written since the request left is the exception the wrapper caught.
C32_NoResultIsFatal ==
    /\ (NoResult /\ http[settled].op \in {"FileCabinets", "Documents"}) =>
        /\ pc = "crashed"
        /\ settled = Len(http)
        /\ cabinets = <<>> <=> http[settled].op = "FileCabinets"
        /\ documents = <<>>
        /\ ~ResolutionCompleted
        /\ http[settled].op = "FileCabinets" => out = WrapperLog
        /\ http[settled].op = "Documents" =>
            /\ pgPc = "crashed"
            /\ Len(out) > Len(WrapperLog)
            /\ out[Len(out) - Len(WrapperLog)] = Line("Fetching documents...")
            /\ SubSeq(out, Len(out) - Len(WrapperLog) + 1, Len(out)) = WrapperLog
    /\ pgPc = "crashed" => (NoResult /\ http[settled].op = "Documents")

\* C32 witness: a page of two rows arrived, the next page request gave up.
C32_Witness ==
    /\ reqResult = Undefined
    /\ pc = "crashed"
    /\ HttpOps = <<"TokenLogOn", "FileCabinets", "Documents", "Documents">>
    /\ Len(pgDocuments) = 2
    /\ documents = <<>>

\* The cabinet-list case of C32.
C32_CabinetsWitness ==
    /\ reqResult = Null
    /\ pc = "crashed"
    /\ HttpOps = <<"FileCabinets">>
    /\ cabinets = <<>>

(***************************************************************************)
(* Claims about the session of the module (SpecHelper)                     *)
(***************************************************************************)
\* No authentication call was under way when attempt j left: every call
\* was over before it, or began after it.
QuietAt(j) ==
    /\ \A a \in 1..Len(authLog) :
        authLog[a].endedAfter < j \/ authLog[a].startedAfter >= j
    /\ authPc # "idle" => authCall.startedAfter >= j

\* The session the calls that were over before attempt j had left behind.
CallsOverBefore(j) == {a \in 1..Len(authLog) : authLog[a].endedAfter < j}
SessionLeftBefore(j) ==
    IF CallsOverBefore(j) = {} THEN [endpoint |-> "", cookie |-> ""]
    ELSE LET a == CHOOSE a \in CallsOverBefore(j) : \A a2 \in CallsOverBefore(j) : a2 <= a
         IN  [endpoint |-> authLog[a].endpointAfter, cookie |-> authLog[a].cookieAfter]

\* C33: every attempt of a call of the wrapper is sent with the endpoint and
\* the cookie the session holds when that attempt leaves: an attempt that
\* leaves while no authentication call is under way carries what the last
\* call before it left behind, so after an authentication call that ran
\* during a backoff delay the attempts that remain carry the new session.
C33_AttemptReadsSession ==
    /\ Len(reqAttempts) = reqSent
    /\ \A j \in 1..Len(reqAttempts) :
        QuietAt(j) => reqAttempts[j] = SessionLeftBefore(j)

\* C33 witness: initAuthFromCreds for https://a, the first attempt, and
\* during its backoff delay initAuthFromToken for https://b: the second
\* attempt of the same call belongs to the other session.
C33_Witness ==
    /\ Len(authLog) = 2
    /\ authLog[1].fn = "initAuthFromCreds" /\ authLog[1].outcome = "returned"
    /\ authLog[1].endedAfter = 0
    /\ authLog[2].fn = "initAuthFromToken" /\ authLog[2].outcome = "returned"
    /\ authLog[2].startedAfter = 1 /\ authLog[2].endedAfter = 1
    /\ reqLog # <<>> /\ reqDelays = 1
    /\ reqAttempts = <<[endpoint |-> "https://a", cookie |-> TokenCookieOf("https://a")],
                       [endpoint |-> "https://b", cookie |-> TokenCookieOf("https://b")]>>

\* An attempt that leaves while the call is still under way: the endpoint is
\* the new one already, the cookie still the old one.
C33_HalfSwitchedWitness ==
    /\ Len(reqAttempts) = 2
    /\ ~QuietAt(2)
    /\ reqAttempts[2] = [endpoint |-> "https://b", cookie |-> TokenCookieOf("https://a")]

\* The cookies the server at ep hands out.
CookiesOf(ep) == {LoginCookieOf(ep), TokenCookieOf(ep)}

\* C34: while no authentication call is under way, whatever calls went
\* before and however they ended, the session's cookie (if any) was handed
\* out by the server at the session's endpoint.
C34_CookieOfEndpoint ==
    authPc = "idle" => (cookie = "" \/ cookie \in CookiesOf(endpoint))

\* What holds instead: a call that returns leaves endpoint and cookie of one
\* server; a call that throws leaves its own endpoint with the cookie it found.
C34_OnlyAfterReturn ==
    \A a \in 1..Len(authLog) :
        LET c == authLog[a]
        IN  /\ c.endpointAfter = c.endpoint
            /\ c.outcome = "returned" => c.cookieAfter \in CookiesOf(c.endpoint)
            /\ c.outcome = "threw" => c.cookieAfter = c.cookieBefore

C34_MismatchWitness ==
    /\ authPc = "idle"
    /\ Len(authLog) = 2
    /\ authLog[1].outcome = "returned" /\ authLog[2].outcome = "threw"
    /\ endpoint = "https://b"
    /\ cookie = TokenCookieOf("https://a")

\* The requests a call of each function issues when none fails.
ExpectedOps(fn) ==
    CASE fn = "generateToken" -> <<"Logon", "LoginToken">>
      [] fn = "initAuthFromToken" -> <<"TokenLogOn">>
      [] fn = "initAuthFromCreds" -> <<"Logon", "LoginToken", "TokenLogOn">>
OpsOf(sent) == [k \in 1..Len(sent) |-> sent[k].op]

\* C35: a call issues each of its authentication requests once, in order
\* (what it has sent is a beginning of the requests of its function, all of
\* them when it returns); a call that threw ended at the request that failed
\* with the cookie as it was when that request left; the wrapper's attempts
\* and delays are those of its own request only.
C35_AuthRequestsOnce ==
    /\ authPc # "idle" =>
        /\ IsPrefix(OpsOf(authCall.sent), ExpectedOps(authCall.fn))
        /\ authPc = authCall.sent[Len(authCall.sent)].op
    /\ \A a \in 1..Len(authLog) :
        LET c == authLog[a]
        IN  /\ c.sent # <<>>
            /\ IsPrefix(OpsOf(c.sent), ExpectedOps(c.fn))
            /\ c.outcome = "returned" => OpsOf(c.sent) = ExpectedOps(c.fn)
            /\ c.outcome = "threw" => c.cookieAfter = c.cookieBefore
    /\ reqDelays = CountNon200(reqLog)
    /\ reqSent <= retryMaxCount
    /\ Len(reqLog) <= reqSent

\* C35 witness: initAuthFromCreds whose token logon failed, after a call that
\* had left another cookie: the cookie is the login cookie generateToken set.
C35_Witness ==
    /\ Len(authLog) = 2
    /\ authLog[1].outcome = "returned"
    /\ authLog[2].fn = "initAuthFromCreds" /\ authLog[2].outcome = "threw"
    /\ OpsOf(authLog[2].sent) = <<"Logon", "LoginToken", "TokenLogOn">>
    /\ authLog[2].cookieBefore = LoginCookieOf(authLog[2].endpoint)
    /\ cookie = authLog[2].cookieBefore
    /\ reqDelays = 0

\* The first request of a call failing: the cookie of the call before stays.
C35_FirstRequestWitness ==
    /\ Len(authLog) = 2
    /\ authLog[1].outcome = "returned"
    /\ authLog[2].outcome = "threw" /\ Len(authLog[2].sent) = 1
    /\ cookie = authLog[1].cookieAfter /\ cookie # ""

(***************************************************************************)
(* Claims about the retry overrides (SpecOverrides)                        *)
(***************************************************************************)
\* The value given is a number other than 0.
NumericNonZero(v) == v \in NumericArgs \ {"0"}

\* The setting after the parse step, were it replaced for numbers other than
\* 0 only.
Replaced(v, default) == IF NumericNonZero(v) THEN NumberOf(v) ELSE default

\* C36: once the parse step is over, each of the four settings is the number
\* given when the value given is a number other than 0, and the default
\* otherwise (0, a value that is no number, or no value).
C36_OverridesNumericNonZero ==
    pc # "start" =>
        /\ retryMaxCount = Replaced(args.retrymax, DefaultRetryMaxCount)
        /\ retryDelayBaseInSeconds = Replaced(args.retrybase, DefaultRetryDelayBaseInSeconds)
        /\ retryDelayRandomMinInSeconds
            = Replaced(args.retryrandmin, DefaultRetryDelayRandomMinInSeconds)
        /\ retryDelayRandomMaxInSeconds
            = Replaced(args.retryrandmax, DefaultRetryDelayRandomMaxInSeconds)

\* What holds of the parse step: for a number other than 0 the number, for
\* 0, no value or a word the default; but 1 for a flag without value and 0
\* for a blank.
C36_ParseStep ==
    pc # "start" =>
        /\ NumericNonZero(args.retrymax) => retryMaxCount = NumberOf(args.retrymax)
        /\ args.retrymax \in {Absent, "0", "abc"} => retryMaxCount = DefaultRetryMaxCount
        /\ args.retrymax = FlagAlone => retryMaxCount = 1
        /\ args.retrymax = Blank => retryMaxCount = 0
        /\ retryDelayBaseInSeconds = Replaced(args.retrybase, DefaultRetryDelayBaseInSeconds)
        /\ retryDelayRandomMinInSeconds
            = Replaced(args.retryrandmin, DefaultRetryDelayRandomMinInSeconds)
        /\ args.retryrandmax = FlagAlone => retryDelayRandomMaxInSeconds = 1

\* The retry policy is written by the parse step only.
C36_PolicyFixedAfterParse == [][pc # "start" => UNCHANGED retryVars]_vars

\* A blank --retrymax: no attempt is left, the cabinet list is never sent for
\* and the run ends in the TypeError of the missing result.
C36_BlankWitness ==
    /\ args.retrymax = Blank
    /\ retryMaxCount = 0
    /\ pc = "crashed"
    /\ HttpOps = <<"FileCabinets">>
    /\ reqResult = Undefined

\* An override in force while the run goes on.
C36_OverrideWitness ==
    /\ args.retrymax = "3" /\ retryMaxCount = 3
    /\ args.retrybase = "abc" /\ retryDelayBaseInSeconds = DefaultRetryDelayBaseInSeconds
    /\ args.retryrandmin = "0"
    /\ retryDelayRandomMinInSeconds = DefaultRetryDelayRandomMinInSeconds
    /\ pc = "returned" /\ Len(http) >= 3

=============================================================================
